---- MODULE Spec2Model ----
(***************************************************************************)
(* A model of kicad_netlist: the S-expression tokenizer, the recursive-    *)
(* descent parser, the tree query layer, the raw schema extraction, the    *)
(* pin-type conversion, the semantic resolver and the mutation engine.     *)
(*                                                                         *)
(* Text is a sequence of one-character strings.  Offsets are byte offsets  *)
(* counted from 0, a span is [start, end) as in logos::Span, so the        *)
(* character at offset o of s is s[o + 1].                                 *)
(***************************************************************************)
EXTENDS Integers, Sequences, FiniteSets, TLC

VARIABLES
    input,      \* the source text handed to the program
    src,        \* the text the tokenizer is currently borrowing
    pos,        \* TokenIter: offset of the logos lexer in src
    toks,       \* the tokens TokenIter::next has returned so far
    pc,         \* position of the running routine
    stack,      \* Parser: the open parse_sexpr calls, innermost last
    result,     \* what the running routine returned
    first,      \* the result of the first of two parses
    run,        \* which parse of the two is running
    tree,       \* the SExpr tree the query layer and the extraction read
    iter,       \* the live LabeledChildIterator, if any
    yielded,    \* the items that iterator has returned so far
    components, \* TryFrom<&SExpr> for NetList: its local `components`
    parts,      \* its local `parts`
    nets,       \* its local `nets`
    raw,        \* the raw::NetList handed to the resolver
    called      \* the last mutation called on the resolved NetList

parseVars == <<stack, result, first, run>>

textVars == <<input, src, pos, toks, stack, first, run>>

treeVars == <<tree, iter, yielded, components, parts, nets, raw, called>>

vars == <<input, src, pos, toks, pc, parseVars, treeVars>>

(***************************************************************************)
(* Bounds                                                                  *)
(***************************************************************************)
MaxLen == 5

MaxToks == 5

MaxKids == 3

MaxAffix == 1

MaxRecs == 2

(***************************************************************************)
(* Small helpers                                                           *)
(***************************************************************************)
Min(a, b) == IF a <= b THEN a ELSE b

Max(a, b) == IF a >= b THEN a ELSE b

RECURSIVE SeqsUpTo(_, _)
SeqsUpTo(S, n) ==
    IF n = 0 THEN {<<>>}
    ELSE LET shorter == SeqsUpTo(S, n - 1)
         IN  shorter \cup {Append(s, c) : s \in {t \in shorter : Len(t) = n - 1}, c \in S}

Span(a, b) == [start |-> a, end |-> b]

NoResult == [kind |-> "None"]

\* no raw netlist is being resolved, no mutation has been called
NoRaw == [t |-> "None"]

NoCall == [op |-> "none"]

\* no tree is being read
NoTree ==
    /\ tree = [t |-> "None"]
    /\ iter = [live |-> FALSE]
    /\ yielded = <<>>
    /\ components = <<>>
    /\ parts = <<>>
    /\ nets = <<>>
    /\ raw = NoRaw
    /\ called = NoCall

\* no text is being read
NoText ==
    /\ input = <<>>
    /\ src = <<>>
    /\ pos = 0
    /\ toks = <<>>
    /\ stack = <<>>
    /\ first = [kind |-> "None"]
    /\ run = 0

Text(s, span) == SubSeq(s, span.start + 1, span.end)

(***************************************************************************)
(* Tokenizer: the logos patterns of LogosTokenKind                         *)
(***************************************************************************)
WS == {" ", "\t", "\r", "\f", "\n"}

EscChars == {"\"", "\\", "b", "n", "f", "r", "t"}

HexChars == {"a", "b", "c", "d", "e", "f", "A", "B", "C", "D", "E", "F",
             "0", "1", "2", "3", "4", "5", "6", "7", "8", "9"}

\* [^"() \t\r\f\n]: the characters of a bare string
IsStringChar(c) == c \notin (WS \cup {"\"", "(", ")"})

\* u[a-fA-F0-9]{4} at offset p
IsUHex(s, p) ==
    /\ p + 5 <= Len(s)
    /\ s[p + 1] = "u"
    /\ \A k \in 2..5 : s[p + k] \in HexChars

\* The body and closing quote of "([^"\\]|\\["\\bnfrt]|u[a-fA-F0-9]{4})*" from
\* offset p on.  ok: the pattern matches, ending at offset end (exclusive);
\* otherwise end is the offset up to which the lexer read before giving up.
RECURSIVE QuotedScan(_, _)
QuotedScan(s, p) ==
    IF p >= Len(s) THEN [ok |-> FALSE, end |-> Len(s)]
    ELSE LET c == s[p + 1] IN
         IF c = "\"" THEN [ok |-> TRUE, end |-> p + 1]
         ELSE IF c = "\\" THEN
              IF p + 1 < Len(s) /\ s[p + 2] \in EscChars
              THEN QuotedScan(s, p + 2)
              ELSE [ok |-> FALSE, end |-> Min(p + 2, Len(s))]
         ELSE LET one == QuotedScan(s, p + 1)
                  five == IF IsUHex(s, p) THEN QuotedScan(s, p + 5) ELSE one
              IN  IF one.ok THEN one ELSE five

\* [ \t\r\f\n]+ with logos::skip: the offset of the first non-blank at or after p
RECURSIVE SkipWS(_, _)
SkipWS(s, p) ==
    IF p < Len(s) /\ s[p + 1] \in WS THEN SkipWS(s, p + 1) ELSE p

\* ([^"() \t\r\f\n])*: the end of the maximal run of string characters from p
RECURSIVE StringEnd(_, _)
StringEnd(s, p) ==
    IF p < Len(s) /\ IsStringChar(s[p + 1]) THEN StringEnd(s, p + 1) ELSE p

\* What the logos lexer yields at offset p: the set of possible
\* (kind, span) items, or "None" at the end of the text.  A text that no
\* pattern matches gives Err; logos does not fix in this repository how much
\* of the scanned text the error span covers, so every non-empty prefix of
\* it is possible.
LogosNext(s, p) ==
    LET q == SkipWS(s, p) IN
    IF q >= Len(s) THEN {[kind |-> "None", span |-> Span(Len(s), Len(s))]}
    ELSE LET c == s[q + 1] IN
         IF c = "(" THEN {[kind |-> "LParen", span |-> Span(q, q + 1)]}
         ELSE IF c = ")" THEN {[kind |-> "RParen", span |-> Span(q, q + 1)]}
         ELSE IF c = "\"" THEN
              LET m == QuotedScan(s, q + 1) IN
              IF m.ok THEN {[kind |-> "QuotedString", span |-> Span(q, m.end)]}
              ELSE {[kind |-> "Err", span |-> Span(q, e)] : e \in (q + 1)..m.end}
         ELSE {[kind |-> "String", span |-> Span(q, StringEnd(s, q))]}

\* a TokenIter::next that reports a quoted string with its quotes
TokenOf_KeepQuotes(item) ==
    CASE item.kind = "Err" ->
            [kind |-> "Error", span |-> item.span, next |-> item.span.end]
      [] item.kind = "QuotedString" ->
            [kind |-> "String", span |-> item.span, next |-> item.span.end]
      [] OTHER ->
            [kind |-> item.kind, span |-> item.span, next |-> item.span.end]

\* TokenIter::next on one logos item: quoted strings lose their quotes.
\* next is the offset the lexer is left at.
TokenOf(item) ==
    CASE item.kind = "QuotedString" ->
            [kind |-> "String",
             span |-> Span(item.span.start + 1, item.span.end - 1),
             next |-> item.span.end]
      [] item.kind = "Err" ->
            [kind |-> "Error", span |-> item.span, next |-> item.span.end]
      [] OTHER ->
            [kind |-> item.kind, span |-> item.span, next |-> item.span.end]

TokenIterNext(s, p) == {TokenOf(item) : item \in LogosNext(s, p)}

(***************************************************************************)
(* The tokenizer run on its own, as in lexer.rs tests::test:               *)
(*     while let Some(token) = it.next() { result.push(..) }               *)
(***************************************************************************)
Alphabet == {"(", ")", "\"", "\\", " ", "a"}

LexInputs == SeqsUpTo(Alphabet, MaxLen)

InitLex ==
    /\ input \in LexInputs
    /\ src = input
    /\ pos = 0
    /\ toks = <<>>
    /\ pc = "lexing"
    /\ stack = <<>>
    /\ result = NoResult
    /\ first = NoResult
    /\ run = 0
    /\ NoTree

LexToken ==
    /\ pc = "lexing"
    /\ \E t \in TokenIterNext(src, pos) :
          /\ t.kind # "None"
          /\ toks' = Append(toks, [kind |-> t.kind, span |-> t.span])
          /\ pos' = t.next
    /\ UNCHANGED <<input, src, pc, parseVars>>
    /\ UNCHANGED treeVars

LexEnd ==
    /\ pc = "lexing"
    /\ \E t \in TokenIterNext(src, pos) :
          /\ t.kind = "None"
          /\ pos' = t.next
    /\ pc' = "eof"
    /\ UNCHANGED <<input, src, toks, parseVars>>
    /\ UNCHANGED treeVars

NextLex == LexToken \/ LexEnd

SpecLex == InitLex /\ [][NextLex]_vars

(***************************************************************************)
(* C10: the token stream tiles the text.  Going through the tokens in      *)
(* order, each token starts where the blanks after the previous token end; *)
(* a '(' / ')' token covers exactly that character; a bare string covers a *)
(* maximal non-empty run of string characters; a quoted string's span is   *)
(* exactly the text between its opening quote and the next unescaped       *)
(* quote; spans are ordered, disjoint and inside the text; no token covers *)
(* a blank outside quotes; and at the end only blanks are left over.       *)
(***************************************************************************)
AllBlank(s, a, b) == \A k \in (a + 1)..b : s[k] \in WS

\* no unescaped quote in s[a+1..b], and no dangling backslash at its end
RECURSIVE NoBareQuote(_, _, _)
NoBareQuote(s, a, b) ==
    IF a >= b THEN a = b
    ELSE IF s[a + 1] = "\"" THEN FALSE
    ELSE IF s[a + 1] = "\\" THEN NoBareQuote(s, a + 2, b)
    ELSE NoBareQuote(s, a + 1, b)

\* the token t, met when the text is consumed up to offset e: is it well placed,
\* and up to where is the text consumed after it
Placed(s, e, t) ==
    LET a == t.span.start
        b == t.span.end
        quoted == /\ t.kind = "String"
                  /\ a > e
                  /\ s[a] = "\""
                  /\ AllBlank(s, e, a - 1)
    IN  IF quoted
        THEN [ok  |-> /\ a <= b /\ b < Len(s)
                      /\ s[b + 1] = "\""
                      /\ NoBareQuote(s, a, b),
              end |-> b + 1]
        ELSE [ok  |-> /\ e <= a /\ a < b /\ b <= Len(s)
                      /\ AllBlank(s, e, a)
                      /\ CASE t.kind = "LParen" -> Text(s, t.span) = <<"(">>
                           [] t.kind = "RParen" -> Text(s, t.span) = <<")">>
                           [] t.kind = "String" ->
                                 /\ \A k \in (a + 1)..b : IsStringChar(s[k])
                                 /\ b < Len(s) => ~IsStringChar(s[b + 1])
                           [] t.kind = "Error" -> s[a + 1] = "\""
                           [] OTHER -> FALSE,
              end |-> b]

RECURSIVE Tiled(_, _, _, _)
Tiled(s, ts, i, e) ==
    IF i > Len(ts) THEN [ok |-> TRUE, end |-> e]
    ELSE LET pl == Placed(s, e, ts[i])
         IN  IF pl.ok THEN Tiled(s, ts, i + 1, pl.end) ELSE [ok |-> FALSE, end |-> e]

C10_TokensTileText ==
    LET tl == Tiled(src, toks, 1, 0)
    IN  /\ tl.ok
        /\ pc = "lexing" => tl.end = pos
        /\ pc = "eof" => AllBlank(src, tl.end, Len(src))

\* the run of lexer.rs tests::test in miniature: a bare string, blanks, an empty
\* quoted string, all lexed to the end
C10_Witness ==
    /\ pc = "eof"
    /\ Len(toks) = 2
    /\ toks[1].kind = "String" /\ Text(src, toks[1].span) = <<"a">>
    /\ toks[2].kind = "String" /\ toks[2].span.start = toks[2].span.end
    /\ \E k \in 1..Len(src) : src[k] \in WS

(***************************************************************************)
(* Parser (sexpr/parser.rs)                                                *)
(*                                                                         *)
(* ParsedSExpr is [t |-> "SExpr", span, children] or [t |-> "String",      *)
(* span]; SExpr is [t |-> "SExpr", label, children] or [t |-> "String",    *)
(* s].  The recursion of parse_sexpr is the stack: one frame per call that *)
(* has read its label, holding the label's span and the children so far.   *)
(***************************************************************************)
PString(span) == [t |-> "String", span |-> span]

PSExpr(span, children) == [t |-> "SExpr", span |-> span, children |-> children]

String(s) == [t |-> "String", s |-> s]

SExpr(label, children) == [t |-> "SExpr", label |-> label, children |-> children]

\* ParsedSExpr::into_sexpr
RECURSIVE into_sexpr(_, _)
into_sexpr(self, text) ==
    IF self.t = "SExpr"
    THEN SExpr(Text(text, self.span),
               [i \in 1..Len(self.children) |-> into_sexpr(self.children[i], text)])
    ELSE String(Text(text, self.span))

\* Parser::get at end of input
UnexpectedEof(text) == [kind |-> "UnexpectedEof", at |-> Span(Len(text), Len(text))]

\* Parser::expect on a token of another kind
UnexpectedToken(expected, tok) ==
    [kind |-> "UnexpectedToken", expected |-> expected, found |-> tok.kind,
     at |-> tok.span]

\* parse_sexpr on a lex-error token among the children of the node labelled label
UnknownToken(tok, label) == [kind |-> "UnknownToken", found |-> tok.kind, at |-> label]

\* TryFrom<&str> for SExpr on a successful parse_sexpr
Parsed(node, text) == [kind |-> "Ok", parsed |-> node, tree |-> into_sexpr(node, text)]

Tok(t) == [kind |-> t.kind, span |-> t.span]

\* the texts of the parser runs: every concatenation of at most MaxToks lexemes
Lexemes == {<<"(", "a">>, <<"(">>, <<")">>, <<" ">>, <<"b">>,
            <<"\"", "c", "\"">>, <<"\"">>}

RECURSIVE Concat(_)
Concat(ss) == IF ss = <<>> THEN <<>> ELSE Head(ss) \o Concat(Tail(ss))

ParseInputs == {Concat(ls) : ls \in SeqsUpTo(Lexemes, MaxToks)}

\* The same tokens with the blanks between them replaced: a single blank
\* before every token, none elsewhere.
RECURSIVE Respaced(_, _)
Respaced(s, p) ==
    LET items == LogosNext(s, p)
        item == CHOOSE it \in items : \A o \in items : it.span.end <= o.span.end
    IN  IF item.kind = "None" THEN <<>>
        ELSE <<" ">> \o Text(s, item.span) \o Respaced(s, item.span.end)

InitParse ==
    /\ input \in ParseInputs
    /\ src = input
    /\ pos = 0
    /\ toks = <<>>
    /\ pc = "expect_lparen"
    /\ stack = <<>>
    /\ result = NoResult
    /\ first = NoResult
    /\ run = 1
    /\ NoTree

\* a push that puts the new child in front of its siblings
PushChild_Front(stk, child) ==
    [stk EXCEPT ![Len(stk)].children = <<child>> \o @]

\* the frame of the innermost call gets one more child
PushChild(stk, child) ==
    [stk EXCEPT ![Len(stk)].children = Append(@, child)]

\* parse_sexpr, line 79, for the root: self.expect(TokenKind::LParen)?
ExpectLParen ==
    /\ pc = "expect_lparen"
    /\ \E t \in TokenIterNext(src, pos) :
          /\ pos' = t.next
          /\ IF t.kind = "None"
             THEN /\ result' = UnexpectedEof(src)
                  /\ pc' = "done"
                  /\ toks' = toks
             ELSE /\ toks' = Append(toks, Tok(t))
                  /\ IF t.kind = "LParen"
                     THEN /\ pc' = "expect_label"
                          /\ result' = result
                     ELSE /\ pc' = "done"
                          /\ result' = UnexpectedToken("LParen", t)
    /\ UNCHANGED <<input, src, stack, first, run>>
    /\ UNCHANGED treeVars

\* parse_sexpr, line 80: let label = self.expect(TokenKind::String)?
ExpectLabel ==
    /\ pc = "expect_label"
    /\ \E t \in TokenIterNext(src, pos) :
          /\ pos' = t.next
          /\ IF t.kind = "None"
             THEN /\ result' = UnexpectedEof(src)
                  /\ pc' = "done"
                  /\ UNCHANGED <<toks, stack>>
             ELSE /\ toks' = Append(toks, Tok(t))
                  /\ IF t.kind = "String"
                     THEN /\ pc' = "loop"
                          /\ stack' = Append(stack, [label |-> t.span, children |-> <<>>])
                          /\ result' = result
                     ELSE /\ pc' = "done"
                          /\ result' = UnexpectedToken("String", t)
                          /\ stack' = stack
    /\ UNCHANGED <<input, src, first, run>>
    /\ UNCHANGED treeVars

\* a loop that, having closed the root, wants the text to end there
LoopRParen_ToEnd ==
    /\ pc = "loop"
    /\ \E t \in TokenIterNext(src, pos) :
          /\ t.kind = "RParen"
          /\ pos' = t.next
          /\ toks' = Append(toks, Tok(t))
          /\ \E rest \in {SubSeq(stack, 1, Len(stack) - 1)} :
                IF rest = <<>>
                THEN /\ stack' = rest
                     /\ pc' = "done"
                     /\ \E after \in TokenIterNext(src, t.next) :
                           result' = IF after.kind = "None"
                                     THEN Parsed(PSExpr(stack[Len(stack)].label,
                                                        stack[Len(stack)].children), src)
                                     ELSE UnexpectedToken("None", after)
                ELSE /\ stack' = PushChild(rest, PSExpr(stack[Len(stack)].label,
                                                        stack[Len(stack)].children))
                     /\ result' = result
                     /\ pc' = "loop"
    /\ UNCHANGED <<input, src, first, run>>
    /\ UNCHANGED treeVars

\* the loop, Some(TokenKind::RParen): skip it and return the node to the caller,
\* which pushes it to its children (line 90) or is TryFrom<&str> (lines 117-119)
LoopRParen ==
    /\ pc = "loop"
    /\ \E t \in TokenIterNext(src, pos) :
          /\ t.kind = "RParen"
          /\ pos' = t.next
          /\ toks' = Append(toks, Tok(t))
          /\ LET top == stack[Len(stack)]
                 node == PSExpr(top.label, top.children)
                 rest == SubSeq(stack, 1, Len(stack) - 1)
             IN  IF rest = <<>>
                 THEN /\ stack' = rest
                      /\ result' = Parsed(node, src)
                      /\ pc' = "done"
                 ELSE /\ stack' = PushChild(rest, node)
                      /\ result' = result
                      /\ pc' = "loop"
    /\ UNCHANGED <<input, src, first, run>>
    /\ UNCHANGED treeVars

\* the loop, Some(TokenKind::LParen): the nested parse_sexpr and its expect(LParen)
LoopLParen ==
    /\ pc = "loop"
    /\ \E t \in TokenIterNext(src, pos) :
          /\ t.kind = "LParen"
          /\ pos' = t.next
          /\ toks' = Append(toks, Tok(t))
    /\ pc' = "expect_label"
    /\ UNCHANGED <<input, src, stack, result, first, run>>
    /\ UNCHANGED treeVars

\* a loop that peeks at the string and pushes it without taking it
LoopString_Peeked ==
    /\ pc = "loop"
    /\ \E t \in TokenIterNext(src, pos) :
          /\ t.kind = "String"
          /\ stack' = PushChild(stack, PString(t.span))
    /\ UNCHANGED <<input, src, pos, toks, pc, result, first, run>>
    /\ UNCHANGED treeVars

\* the loop, Some(TokenKind::String)
LoopString ==
    /\ pc = "loop"
    /\ \E t \in TokenIterNext(src, pos) :
          /\ t.kind = "String"
          /\ pos' = t.next
          /\ toks' = Append(toks, Tok(t))
          /\ stack' = PushChild(stack, PString(t.span))
    /\ UNCHANGED <<input, src, pc, result, first, run>>
    /\ UNCHANGED treeVars

\* a loop that reports a lex-error token the way expect reports a wrong kind
LoopError_AsUnexpected ==
    /\ pc = "loop"
    /\ \E t \in TokenIterNext(src, pos) :
          /\ t.kind = "Error"
          /\ pos' = t.next
          /\ toks' = Append(toks, Tok(t))
          /\ result' = UnexpectedToken("RParen", t)
    /\ pc' = "done"
    /\ UNCHANGED <<input, src, stack, first, run>>
    /\ UNCHANGED treeVars

\* the loop, Some(TokenKind::Error)
LoopError ==
    /\ pc = "loop"
    /\ \E t \in TokenIterNext(src, pos) :
          /\ t.kind = "Error"
          /\ pos' = t.next
          /\ toks' = Append(toks, Tok(t))
          /\ result' = UnknownToken(t, stack[Len(stack)].label)
    /\ pc' = "done"
    /\ UNCHANGED <<input, src, stack, first, run>>
    /\ UNCHANGED treeVars

\* the loop, None: self.get()? fails with UnexpectedEof
LoopEof ==
    /\ pc = "loop"
    /\ \E t \in TokenIterNext(src, pos) :
          /\ t.kind = "None"
          /\ pos' = t.next
    /\ result' = UnexpectedEof(src)
    /\ pc' = "done"
    /\ UNCHANGED <<input, src, toks, stack, first, run>>
    /\ UNCHANGED treeVars

\* SExpr::try_from once more, on the text with its blanks replaced
\* (tests::can_parse_sexpr: "(abc)" and "(abc\n)")
ParseAgain ==
    /\ pc = "done"
    /\ run = 1
    /\ first' = result
    /\ run' = 2
    /\ src' = Respaced(input, 0)
    /\ pos' = 0
    /\ toks' = <<>>
    /\ stack' = <<>>
    /\ result' = NoResult
    /\ pc' = "expect_lparen"
    /\ UNCHANGED input
    /\ UNCHANGED treeVars

NextParse ==
    \/ ExpectLParen
    \/ ExpectLabel
    \/ LoopRParen
    \/ LoopLParen
    \/ LoopString
    \/ LoopError
    \/ LoopEof
    \/ ParseAgain

SpecParse == InitParse /\ [][NextParse]_vars

(***************************************************************************)
(* C1: a successful parse has consumed, from the start of the text,        *)
(* exactly the tokens '(' string (string | sexpr)* ')' that its tree       *)
(* spells out: written back as tokens (a '(' and the label for every       *)
(* Labeled node, then its children in order, then a ')'), the tree gives   *)
(* the consumed tokens, kind by kind and text by text.  And a text that    *)
(* differs only in the blanks between its tokens parses to the same tree   *)
(* (or fails as well).                                                     *)
(***************************************************************************)
RECURSIVE TokensOfTree(_)
TokensOfTree(node) ==
    IF node.t = "String" THEN <<[kind |-> "String", text |-> node.s]>>
    ELSE <<[kind |-> "LParen", text |-> <<"(">>],
           [kind |-> "String", text |-> node.label]>>
         \o Concat([i \in 1..Len(node.children) |-> TokensOfTree(node.children[i])])
         \o <<[kind |-> "RParen", text |-> <<")">>]>>

ConsumedTokens ==
    [i \in 1..Len(toks) |-> [kind |-> toks[i].kind, text |-> Text(src, toks[i].span)]]

C1_TreeMirrorsTokens ==
    /\ Tiled(src, toks, 1, 0).ok
    /\ (pc = "done" /\ result.kind = "Ok") =>
          /\ result.tree.t = "SExpr"
          /\ TokensOfTree(result.tree) = ConsumedTokens
    /\ (pc = "done" /\ run = 2) =>
          /\ (first.kind = "Ok") <=> (result.kind = "Ok")
          /\ first.kind = "Ok" => first.tree = result.tree

\* a node with a string child and a nested child, parsed from two texts that
\* differ in their blanks
C1_Witness ==
    /\ pc = "done" /\ run = 2
    /\ src # input
    /\ result.kind = "Ok"
    /\ Len(result.tree.children) = 2
    /\ result.tree.children[1].t = "String"
    /\ result.tree.children[2].t = "SExpr"

(***************************************************************************)
(* Tree query layer (sexpr.rs): value, children, child                     *)
(*                                                                         *)
(* A LabeledChildIterator is [iter, label]; iter is the Option of a slice  *)
(* iterator, [some |-> FALSE] or [some |-> TRUE, kids, at] with at the     *)
(* number of elements of kids it has passed.                               *)
(***************************************************************************)
None == [some |-> FALSE]

Some(node) == [some |-> TRUE, node |-> node]

MissingChild(label) == [kind |-> "MissingChild", label |-> label]

MissingValue == [kind |-> "MissingValue"]

\* an iterator that returns the next Labeled child whatever its label
RECURSIVE LabeledLoop_NoFilter(_, _, _)
LabeledLoop_NoFilter(kids, at, label) ==
    IF at >= Len(kids) THEN [item |-> 0, at |-> Len(kids)]
    ELSE IF kids[at + 1].t = "String" THEN LabeledLoop_NoFilter(kids, at + 1, label)
    ELSE [item |-> at + 1, at |-> at + 1]

\* the loop of LabeledChildIterator::next from position at on: the index of the
\* item it returns (0: None) and the position it stops at
RECURSIVE LabeledLoop(_, _, _)
LabeledLoop(kids, at, label) ==
    IF at >= Len(kids) THEN [item |-> 0, at |-> Len(kids)]
    ELSE LET item == kids[at + 1] IN
         IF item.t = "String" THEN LabeledLoop(kids, at + 1, label)
         ELSE IF item.label = label THEN [item |-> at + 1, at |-> at + 1]
         ELSE LabeledLoop(kids, at + 1, label)

\* SExpr::children
children(self, label) ==
    [iter  |-> IF self.t = "String" THEN None
               ELSE [some |-> TRUE, kids |-> self.children, at |-> 0],
     label |-> label]

\* LabeledChildIterator::next: the item returned and the iterator afterwards
LabeledChildIterator_next(self) ==
    IF ~self.iter.some THEN [item |-> None, self |-> self]
    ELSE LET r == LabeledLoop(self.iter.kids, self.iter.at, self.label)
         IN  [item |-> IF r.item = 0 THEN None ELSE Some(self.iter.kids[r.item]),
              self |-> [self EXCEPT !.iter.at = r.at]]

\* SExpr::child
child(self, label) ==
    LET r == LabeledChildIterator_next(children(self, label))
    IN  IF r.item.some THEN [kind |-> "Ok", node |-> r.item.node]
        ELSE MissingChild(label)

\* Iterator::collect on a LabeledChildIterator: every item up to the first None
RECURSIVE Collect(_)
Collect(it) ==
    LET r == LabeledChildIterator_next(it)
    IN  IF r.item.some THEN <<r.item.node>> \o Collect(r.self) ELSE <<>>

\* a value that reports an empty or nested child the way it reports a missing one
value_OneErrorKind(self, label) ==
    LET c == child(self, label) IN
    IF c.kind # "Ok" THEN c
    ELSE IF /\ c.node.children # <<>>
            /\ c.node.children[1].t = "String"
         THEN [kind |-> "Ok", s |-> c.node.children[1].s]
         ELSE MissingChild(label)

\* a value that searches on for a child carrying label that starts with a string atom
value_FirstWithAtom(self, label) ==
    LET c == child(self, label)
        cs == Collect(children(self, label))
        hit == {i \in 1..Len(cs) : cs[i].children # <<>> /\ cs[i].children[1].t = "String"}
    IN  IF c.kind # "Ok" THEN c
        ELSE IF hit = {} THEN MissingValue
        ELSE LET i == CHOOSE i \in hit : \A j \in hit : i <= j
             IN  [kind |-> "Ok", s |-> cs[i].children[1].s]

\* SExpr::value
value(self, label) ==
    LET c == child(self, label) IN
    IF c.kind # "Ok" THEN c
    ELSE IF /\ c.node.t = "SExpr"
            /\ c.node.children # <<>>
            /\ c.node.children[1].t = "String"
         THEN [kind |-> "Ok", s |-> c.node.children[1].s]
         ELSE MissingValue

\* The trees of the query runs: an atom, or a node "a" with at most MaxKids
\* children, each an atom or a node "b"/"c" that is empty, starts with an
\* atom, or starts with a nested node "b".  The queries ask for "b".
QLabels == {"b"}

QKidLabels == {"b", "c"}

QAtoms == {String("x"), String("y")}

QNested == SExpr("b", <<String("y")>>)

QBodies == {<<>>, <<QNested, String("x")>>, <<String("x"), QNested>>}
               \cup {<<a>> : a \in QAtoms}

QKids == {String("x")} \cup {SExpr(l, body) : l \in QKidLabels, body \in QBodies}

QueryTrees == {String("x")} \cup {SExpr("a", ks) : ks \in SeqsUpTo(QKids, MaxKids)}

InitQuery ==
    /\ NoText
    /\ tree \in QueryTrees
    /\ iter = [live |-> FALSE]
    /\ yielded = <<>>
    /\ components = <<>>
    /\ parts = <<>>
    /\ nets = <<>>
    /\ raw = NoRaw
    /\ called = NoCall
    /\ result = NoResult
    /\ pc = "query"

\* let mut iter = root.children(label)
CallChildren ==
    /\ pc = "query"
    /\ \E l \in QLabels :
          iter' = [live |-> TRUE, it |-> children(tree, l), ended |-> FALSE]
    /\ yielded' = <<>>
    /\ UNCHANGED <<raw, called, tree, components, parts, nets, result, pc>>
    /\ UNCHANGED textVars

\* iter.next()
CallNext ==
    /\ pc = "query"
    /\ iter.live
    /\ ~iter.ended
    /\ LET r == LabeledChildIterator_next(iter.it)
       IN  /\ iter' = [iter EXCEPT !.it = r.self, !.ended = ~r.item.some]
           /\ yielded' = IF r.item.some THEN Append(yielded, r.item.node) ELSE yielded
    /\ UNCHANGED <<raw, called, tree, components, parts, nets, result, pc>>
    /\ UNCHANGED textVars

\* root.child(label)
CallChild ==
    /\ pc = "query"
    /\ \E l \in QLabels :
          result' = [op |-> "child", label |-> l, ret |-> child(tree, l)]
    /\ UNCHANGED <<pc, treeVars>>
    /\ UNCHANGED textVars

\* root.value(label)
CallValue ==
    /\ pc = "query"
    /\ \E l \in QLabels :
          result' = [op |-> "value", label |-> l, ret |-> value(tree, l)]
    /\ UNCHANGED <<pc, treeVars>>
    /\ UNCHANGED textVars

NextQuery == CallChildren \/ CallNext \/ CallChild \/ CallValue

SpecQuery == InitQuery /\ [][NextQuery]_vars

\* the direct children of node that are Labeled with label, in document order
Labelled(node, label) ==
    IF node.t = "String" THEN <<>>
    ELSE SelectSeq(node.children, LAMBDA c : c.t = "SExpr" /\ c.label = label)

\* a Labeled node that starts with a string atom
HasLeadingAtom(node) == node.children # <<>> /\ node.children[1].t = "String"

(***************************************************************************)
(* C9: the items children(label) has yielded are always the first ones of  *)
(* the direct Labeled children carrying label, in document order, and all  *)
(* of them once it has returned None (nothing on an atom node); a new call *)
(* starts again from the first; child(label) is the first of them, or      *)
(* MissingChild(label) when there is none.                                 *)
(***************************************************************************)
C9_ChildrenByLabel ==
    /\ iter.live =>
          LET want == Labelled(tree, iter.it.label)
          IN  /\ Len(yielded) <= Len(want)
              /\ yielded = SubSeq(want, 1, Len(yielded))
              /\ iter.ended => yielded = want
              /\ tree.t = "String" => yielded = <<>>
    /\ (result # NoResult /\ result.op = "child") =>
          LET want == Labelled(tree, result.label)
          IN  result.ret = IF want = <<>> THEN MissingChild(result.label)
                           ELSE [kind |-> "Ok", node |-> want[1]]

\* the shape of tests::sexpr_children_by_name_works: b, c, b, iterated to the end
C9_Witness ==
    /\ iter.live /\ iter.ended /\ iter.it.label = "b"
    /\ Len(yielded) = 2
    /\ Len(tree.children) = 3
    /\ tree.children[1].t = "SExpr" /\ tree.children[1].label = "b"
    /\ tree.children[2].t = "SExpr" /\ tree.children[2].label = "c"
    /\ \E i \in 1..2 : \E j \in 1..Len(tree.children[i].children) :
          tree.children[i].children[j] = QNested
    /\ result # NoResult /\ result.op = "child" /\ result.label = "b"

(***************************************************************************)
(* C7: value(label) fails with MissingChild(label) exactly when the node   *)
(* has no direct Labeled child carrying label (an atom node has none), and *)
(* with MissingValue only when some child carrying label is empty or       *)
(* starts with a nested node.                                              *)
(***************************************************************************)
C7_ValueErrorKinds ==
    (result # NoResult /\ result.op = "value") =>
        LET want == Labelled(tree, result.label)
            ret == result.ret
        IN  /\ ret.kind \in {"Ok", "MissingChild", "MissingValue"}
            /\ (ret.kind = "MissingChild") <=> (want = <<>>)
            /\ ret.kind = "MissingChild" => ret = MissingChild(result.label)
            /\ ret.kind = "MissingValue" =>
                  \E i \in 1..Len(want) : ~HasLeadingAtom(want[i])

\* value on a node whose child "b" starts with a nested node
C7_Witness ==
    /\ result # NoResult /\ result.op = "value"
    /\ result.ret.kind = "MissingValue"
    /\ Labelled(tree, result.label)[1].children # <<>>

(***************************************************************************)
(* C8 as stated: whenever some direct child carrying label starts with a   *)
(* string atom, value(label) returns the string of the earliest such       *)
(* child.                                                                  *)
(***************************************************************************)
C8_EarliestWithAtom ==
    (result # NoResult /\ result.op = "value") =>
        LET want == Labelled(tree, result.label)
            hit == {i \in 1..Len(want) : HasLeadingAtom(want[i])}
        IN  hit # {} =>
               LET i == CHOOSE i \in hit : \A j \in hit : i <= j
               IN  result.ret = [kind |-> "Ok", s |-> want[i].children[1].s]

(***************************************************************************)
(* C8, amended: value(label) looks at the first direct child carrying      *)
(* label only.  It returns that child's leading string atom when it has    *)
(* one, and fails with MissingValue otherwise, also when a later child     *)
(* carrying label starts with a string atom.                               *)
(***************************************************************************)
C8_FirstLabelledOnly ==
    (result # NoResult /\ result.op = "value") =>
        LET want == Labelled(tree, result.label)
        IN  want # <<>> =>
               result.ret = IF HasLeadingAtom(want[1])
                            THEN [kind |-> "Ok", s |-> want[1].children[1].s]
                            ELSE MissingValue

\* the first "b" is empty or nested, a later "b" starts with a string atom
C8_Witness ==
    /\ result # NoResult /\ result.op = "value"
    /\ LET want == Labelled(tree, result.label)
       IN  /\ Len(want) >= 2
           /\ ~HasLeadingAtom(want[1])
           /\ HasLeadingAtom(want[2])
    /\ result.ret = MissingValue

(***************************************************************************)
(* Pin-type conversion (parse.rs): TryFrom<&str> for PinType               *)
(***************************************************************************)
Chars_input == <<"i", "n", "p", "u", "t">>

Chars_output == <<"o", "u", "t", "p", "u", "t">>

Chars_bidirectional == <<"b", "i", "d", "i", "r", "e", "c", "t", "i", "o", "n", "a", "l">>

Chars_tri_state == <<"t", "r", "i", "_", "s", "t", "a", "t", "e">>

Chars_passive == <<"p", "a", "s", "s", "i", "v", "e">>

Chars_free == <<"f", "r", "e", "e">>

Chars_power_in == <<"p", "o", "w", "e", "r", "_", "i", "n">>

Chars_power_out == <<"p", "o", "w", "e", "r", "_", "o", "u", "t">>

Chars_open_collector == <<"o", "p", "e", "n", "_", "c", "o", "l", "l", "e", "c", "t", "o", "r">>

Chars_open_emitter == <<"o", "p", "e", "n", "_", "e", "m", "i", "t", "t", "e", "r">>

Chars_no_connect == <<"n", "o", "_", "c", "o", "n", "n", "e", "c", "t">>

Ok(v) == [kind |-> "Ok", v |-> v]

PinType(tag) == [pintype |-> tag]

UnknownPinType(s) == [kind |-> "UnknownPinType", s |-> s]

\* str::ends_with
ends_with(s, suffix) ==
    /\ Len(s) >= Len(suffix)
    /\ SubSeq(s, Len(s) - Len(suffix) + 1, Len(s)) = suffix

\* a conversion that knows "no_connect" only as a whole word
PinType_try_from_WholeWord(string) ==
    CASE string = Chars_no_connect -> Ok(PinType("Unconnected"))
      [] string = Chars_input -> Ok(PinType("Input"))
      [] string = Chars_output -> Ok(PinType("Output"))
      [] string = Chars_bidirectional -> Ok(PinType("Bidirectional"))
      [] string = Chars_tri_state -> Ok(PinType("TriState"))
      [] string = Chars_passive -> Ok(PinType("Passive"))
      [] string = Chars_free -> Ok(PinType("Free"))
      [] string = Chars_power_in -> Ok(PinType("PowerInput"))
      [] string = Chars_power_out -> Ok(PinType("PowerOutput"))
      [] string = Chars_open_collector -> Ok(PinType("OpenCollector"))
      [] string = Chars_open_emitter -> Ok(PinType("OpenEmitter"))
      [] OTHER -> UnknownPinType(string)

\* TryFrom<&str> for PinType
PinType_try_from(string) ==
    IF ends_with(string, Chars_no_connect) THEN Ok(PinType("Unconnected"))
    ELSE CASE
         string = Chars_input -> Ok(PinType("Input"))
      [] string = Chars_output -> Ok(PinType("Output"))
      [] string = Chars_bidirectional -> Ok(PinType("Bidirectional"))
      [] string = Chars_tri_state -> Ok(PinType("TriState"))
      [] string = Chars_passive -> Ok(PinType("Passive"))
      [] string = Chars_free -> Ok(PinType("Free"))
      [] string = Chars_power_in -> Ok(PinType("PowerInput"))
      [] string = Chars_power_out -> Ok(PinType("PowerOutput"))
      [] string = Chars_open_collector -> Ok(PinType("OpenCollector"))
      [] string = Chars_open_emitter -> Ok(PinType("OpenEmitter"))
      [] OTHER -> UnknownPinType(string)

\* The strings of the conversion runs: each word of the vocabulary, "no_connect"
\* and the empty string, with at most MaxAffix characters put before and after
PinWords == {Chars_input, Chars_output, Chars_bidirectional, Chars_tri_state,
             Chars_passive, Chars_free, Chars_power_in, Chars_power_out,
             Chars_open_collector, Chars_open_emitter, Chars_no_connect, <<>>}

PinAffixes == SeqsUpTo({"x", "_"}, MaxAffix)

PinStrings == {a \o w \o b : a \in PinAffixes, w \in PinWords, b \in PinAffixes}

InitPin ==
    /\ input \in PinStrings
    /\ src = <<>>
    /\ pos = 0
    /\ toks = <<>>
    /\ stack = <<>>
    /\ first = NoResult
    /\ run = 0
    /\ NoTree
    /\ result = NoResult
    /\ pc = "convert"

\* PinType::try_from(input)
ConvertPinType ==
    /\ pc = "convert"
    /\ result' = PinType_try_from(input)
    /\ pc' = "converted"
    /\ UNCHANGED textVars
    /\ UNCHANGED treeVars

NextPin == ConvertPinType

SpecPin == InitPin /\ [][NextPin]_vars

(***************************************************************************)
(* C6: each of the ten words converts to its own tag, the ten tags are     *)
(* pairwise different and none is Unconnected; every string that ends in   *)
(* "no_connect" converts to Unconnected; every other string fails with     *)
(* UnknownPinType carrying that string.                                    *)
(***************************************************************************)
ClaimedTags ==
    <<<<Chars_input, "Input">>,
       <<Chars_output, "Output">>,
       <<Chars_bidirectional, "Bidirectional">>,
       <<Chars_tri_state, "TriState">>,
       <<Chars_passive, "Passive">>,
       <<Chars_free, "Free">>,
       <<Chars_power_in, "PowerInput">>,
       <<Chars_power_out, "PowerOutput">>,
       <<Chars_open_collector, "OpenCollector">>,
       <<Chars_open_emitter, "OpenEmitter">>>>

C6_PinTypeClassification ==
    /\ \A i, j \in 1..Len(ClaimedTags) :
          /\ ClaimedTags[i][2] # "Unconnected"
          /\ i # j => ClaimedTags[i][2] # ClaimedTags[j][2]
    /\ pc = "converted" =>
          LET words == {i \in 1..Len(ClaimedTags) : ClaimedTags[i][1] = input}
              no_connect == \E k \in 0..Len(input) :
                               input = SubSeq(input, 1, k) \o Chars_no_connect
          IN  /\ \A i \in words : result = Ok(PinType(ClaimedTags[i][2]))
              /\ no_connect => result = Ok(PinType("Unconnected"))
              /\ (words = {} /\ ~no_connect) => result = UnknownPinType(input)

\* "no_connect" with something before it
C6_Witness ==
    /\ pc = "converted"
    /\ Len(input) > Len(Chars_no_connect)
    /\ result = Ok(PinType("Unconnected"))

(***************************************************************************)
(* Raw schema extraction (raw/parser.rs)                                   *)
(*                                                                         *)
(* A conversion returns Ok(record) or the ParseError it stopped at ("?").  *)
(***************************************************************************)
IsOk(r) == r.kind = "Ok"

\* Result::ok on the result of value
ok(r) == IF IsOk(r) THEN [some |-> TRUE, s |-> r.s] ELSE None

\* Result::unwrap_or_default on the result of value
unwrap_or_default(r) == IF IsOk(r) THEN r.s ELSE ""

\* a collect that pushes each value in front of the ones before it
TryCollect_Reversed(rs) ==
    LET bad == {i \in 1..Len(rs) : ~IsOk(rs[i])}
    IN  IF bad = {} THEN Ok([i \in 1..Len(rs) |-> rs[Len(rs) + 1 - i].v])
        ELSE rs[CHOOSE i \in bad : \A j \in bad : i <= j]

\* collect::<Result<Vec<_>, _>>: the first error, or all the values
TryCollect(rs) ==
    LET bad == {i \in 1..Len(rs) : ~IsOk(rs[i])}
    IN  IF bad = {} THEN Ok([i \in 1..Len(rs) |-> rs[i].v])
        ELSE rs[CHOOSE i \in bad : \A j \in bad : i <= j]

\* SExpr::label
label(self) == IF self.t = "SExpr" THEN [some |-> TRUE, s |-> self.label] ELSE None

UnexpectedRootLabel(s) == [kind |-> "UnexpectedRootLabel", s |-> s]

UnknownVersion(s) == [kind |-> "UnknownVersion", s |-> s]

\* Option::unwrap on None
Panic == [kind |-> "panic"]

\* the closure of Component::try_from over one property
Property_try_from(prop) ==
    LET name == value(prop, "name") IN
    IF ~IsOk(name) THEN name ELSE
    LET val == value(prop, "value") IN
    IF ~IsOk(val) THEN val ELSE
    Ok(<<name.s, val.s>>)

\* TryFrom<&SExpr> for Component
Component_try_from(node) ==
    LET ref_des == value(node, "ref") IN
    IF ~IsOk(ref_des) THEN ref_des ELSE
    LET val == value(node, "value") IN
    IF ~IsOk(val) THEN val ELSE
    LET footprint == ok(value(node, "footprint"))
        props == Collect(children(node, "property"))
        properties == TryCollect([i \in 1..Len(props) |-> Property_try_from(props[i])])
    IN
    IF ~IsOk(properties) THEN properties ELSE
    LET libsource == child(node, "libsource") IN
    IF ~IsOk(libsource) THEN libsource ELSE
    LET lib == value(libsource.node, "lib") IN
    IF ~IsOk(lib) THEN lib ELSE
    LET part == value(libsource.node, "part") IN
    IF ~IsOk(part) THEN part ELSE
    Ok([ref_des |-> ref_des.s, value |-> val.s, part |-> part.s, lib |-> lib.s,
        properties |-> properties.v, footprint |-> footprint])

\* TryFrom<&SExpr> for Pin
Pin_try_from(node) ==
    LET num == value(node, "num") IN
    IF ~IsOk(num) THEN num ELSE
    LET name == value(node, "name") IN
    IF ~IsOk(name) THEN name ELSE
    LET typ == value(node, "type") IN
    IF ~IsOk(typ) THEN typ ELSE
    Ok([num |-> num.s, name |-> name.s, typ |-> typ.s])

\* a Part conversion that insists on a description
Part_try_from_Strict(node) ==
    LET lib == value(node, "lib") IN
    IF ~IsOk(lib) THEN lib ELSE
    LET part == value(node, "part") IN
    IF ~IsOk(part) THEN part ELSE
    LET description == value(node, "description") IN
    IF ~IsOk(description) THEN description ELSE
    LET pinsNode == child(node, "pins")
        found == IF IsOk(pinsNode) THEN Collect(children(pinsNode.node, "pin")) ELSE <<>>
        pins == TryCollect([i \in 1..Len(found) |-> Pin_try_from(found[i])])
    IN
    IF ~IsOk(pins) THEN pins ELSE
    Ok([part |-> part.s, lib |-> lib.s, description |-> description.s, pins |-> pins.v])

\* TryFrom<&SExpr> for Part
Part_try_from(node) ==
    LET lib == value(node, "lib") IN
    IF ~IsOk(lib) THEN lib ELSE
    LET part == value(node, "part") IN
    IF ~IsOk(part) THEN part ELSE
    LET description == unwrap_or_default(value(node, "description"))
        pinsNode == child(node, "pins")
        found == IF IsOk(pinsNode) THEN Collect(children(pinsNode.node, "pin")) ELSE <<>>
        pins == TryCollect([i \in 1..Len(found) |-> Pin_try_from(found[i])])
    IN
    IF ~IsOk(pins) THEN pins ELSE
    Ok([part |-> part.s, lib |-> lib.s, description |-> description, pins |-> pins.v])

\* TryFrom<&SExpr> for Node
Node_try_from(node) ==
    LET ref_des == value(node, "ref") IN
    IF ~IsOk(ref_des) THEN ref_des ELSE
    LET num == value(node, "pin") IN
    IF ~IsOk(num) THEN num ELSE
    LET function == ok(value(node, "pinfunction"))
        typ == value(node, "pintype")
    IN
    IF ~IsOk(typ) THEN typ ELSE
    Ok([ref_des |-> ref_des.s, num |-> num.s, function |-> function, typ |-> typ.s])

\* TryFrom<&SExpr> for Net
Net_try_from(node) ==
    LET code == value(node, "code") IN
    IF ~IsOk(code) THEN code ELSE
    LET name == value(node, "name") IN
    IF ~IsOk(name) THEN name ELSE
    LET found == Collect(children(node, "node"))
        nodes == TryCollect([i \in 1..Len(found) |-> Node_try_from(found[i])])
    IN
    IF ~IsOk(nodes) THEN nodes ELSE
    Ok([code |-> code.s, name |-> name.s, nodes |-> nodes.v])

\* value.child(section)?.children(item).map(|x| x.try_into()).collect()
\* up to the items found, before their conversion
Section(root, section, item) ==
    LET sec == child(root, section)
    IN  IF IsOk(sec) THEN Ok(Collect(children(sec.node, item))) ELSE sec

(***************************************************************************)
(* The trees of the extraction runs: an atom, or a netlist                 *)
(*   (label (version v) (design) (components comp..) (libparts libpart..)  *)
(*          (nets net..))                                                  *)
(* with at most MaxRecs records per section, any root label and version,   *)
(* at most one section left out, and at most one field of one record left  *)
(* out ("absent") or left without a value ("empty").                       *)
(***************************************************************************)
NoDefect == [key |-> "none", how |-> "absent"]

\* (l "s"), unless the defect d is about this field
Field(key, l, s, d) ==
    IF d.key # key THEN <<SExpr(l, <<String(s)>>)>>
    ELSE IF d.how = "absent" THEN <<>>
    ELSE <<SExpr(l, <<>>)>>

\* (l kids...), unless the defect d is about this group
Group(key, l, kids, d) ==
    IF d.key # key THEN <<SExpr(l, kids)>>
    ELSE IF d.how = "absent" THEN <<>>
    ELSE <<SExpr(l, <<>>)>>

RefDesOf(i) == IF i <= 3 THEN <<"R1", "R2", "R3">>[i] ELSE ToString(i)

PartOf(i) == IF i <= 3 THEN <<"P1", "P2", "P3">>[i] ELSE ToString(i)

NetOf(i) == IF i <= 3 THEN <<"N1", "N2", "N3">>[i] ELSE ToString(i)

CompNode(i, d) ==
    SExpr("comp",
          Field("ref", "ref", RefDesOf(i), d)
          \o Field("value", "value", "10k", d)
          \o Field("footprint", "footprint", "SOT", d)
          \o Group("libsource", "libsource",
                   Field("libsource.lib", "lib", "Device", d)
                   \o Field("libsource.part", "part", PartOf(1), d), d)
          \o Group("property", "property",
                   Field("property.name", "name", "Sheetname", d)
                   \o Field("property.value", "value", "Root", d), d))

PartNode(i, d) ==
    SExpr("libpart",
          Field("lib", "lib", "Device", d)
          \o Field("part", "part", PartOf(i), d)
          \o Field("description", "description", "Resistor", d)
          \o Group("pins", "pins",
                   <<SExpr("pin", Field("pin.num", "num", "1", d)
                                  \o Field("pin.name", "name", "A", d)
                                  \o Field("pin.type", "type", "passive", d))>>, d))

NetNode(i, d) ==
    SExpr("net",
          Field("code", "code", ToString(i), d)
          \o Field("name", "name", NetOf(i), d)
          \o Group("node", "node",
                   Field("node.ref", "ref", RefDesOf(1), d)
                   \o Field("node.pin", "pin", "1", d)
                   \o Field("node.pinfunction", "pinfunction", "A", d)
                   \o Field("node.pintype", "pintype", "passive", d), d))

CompKeys == {"ref", "value", "footprint", "libsource", "libsource.lib",
             "libsource.part", "property", "property.name", "property.value"}

PartKeys == {"lib", "part", "description", "pins", "pin.num", "pin.name", "pin.type"}

NetKeys == {"code", "name", "node", "node.ref", "node.pin", "node.pinfunction",
            "node.pintype"}

Hows == {"absent", "empty"}

RootLabels == {"export", "design"}

Versions == {"E", "D", "absent", "empty"}

Sections == {"components", "libparts", "nets"}

KeysOf(section) ==
    CASE section = "components" -> CompKeys
      [] section = "libparts" -> PartKeys
      [] section = "nets" -> NetKeys

\* the places of one defect: field d.key of record idx of section sec
Places(count) ==
    UNION {{[sec |-> sec, idx |-> i, d |-> [key |-> k, how |-> h]] :
                i \in 1..count[sec], k \in KeysOf(sec), h \in Hows} :
           sec \in Sections}

Counts == [Sections -> 0..MaxRecs]

\* any root label and version, a section left out, records without defect
HeaderRecipes ==
    {[label |-> l, version |-> v, count |-> c, missing |-> m,
      sec |-> "none", idx |-> 0, d |-> NoDefect] :
        l \in RootLabels, v \in Versions, m \in Sections \cup {"none"}, c \in Counts}

\* a netlist of a known or unknown version with one defect in one record
DefectRecipes ==
    UNION {{[label |-> "export", version |-> v, count |-> c, missing |-> "none",
             sec |-> pl.sec, idx |-> pl.idx, d |-> pl.d] :
               v \in {"E", "D"}, pl \in Places(c)} :
           c \in Counts}

\* r.count[section] records in each section; the defect r.d is in record r.idx
\* of section r.sec
Recipes == HeaderRecipes \cup DefectRecipes

DefectAt(r, section, i) == IF r.sec = section /\ r.idx = i THEN r.d ELSE NoDefect

RecordNode(section, i, d) ==
    CASE section = "components" -> CompNode(i, d)
      [] section = "libparts" -> PartNode(i, d)
      [] section = "nets" -> NetNode(i, d)

SectionNode(r, section) ==
    IF r.missing = section THEN <<>>
    ELSE <<SExpr(section,
                 [i \in 1..r.count[section] |->
                     RecordNode(section, i, DefectAt(r, section, i))])>>

Build(r) ==
    SExpr(r.label,
          (CASE r.version = "absent" -> <<>>
             [] r.version = "empty" -> <<SExpr("version", <<>>)>>
             [] OTHER -> <<SExpr("version", <<String(r.version)>>)>>)
          \o <<SExpr("design", <<SExpr("source", <<String("a.kicad_sch")>>)>>)>>
          \o SectionNode(r, "components")
          \o SectionNode(r, "libparts")
          \o SectionNode(r, "nets"))

ExtractTrees == {String("export")} \cup {Build(r) : r \in Recipes}

(***************************************************************************)
(* TryFrom<&SExpr> for NetList, one action per check or section            *)
(***************************************************************************)
InitExtract ==
    /\ NoText
    /\ tree \in ExtractTrees
    /\ iter = [live |-> FALSE]
    /\ yielded = <<>>
    /\ components = <<>>
    /\ parts = <<>>
    /\ nets = <<>>
    /\ raw = NoRaw
    /\ called = NoCall
    /\ result = NoResult
    /\ pc = "root"

\* a root-label check that comes after the version lookup
CheckRootLabel_AfterVersion ==
    /\ pc = "root"
    /\ \E version \in {value(tree, "version")}, l \in {label(tree)} :
          IF ~IsOk(version) THEN result' = version /\ pc' = "done"
          ELSE IF ~l.some THEN result' = Panic /\ pc' = "done"
          ELSE IF l.s # "export" THEN result' = UnexpectedRootLabel(l.s) /\ pc' = "done"
          ELSE result' = result /\ pc' = "version"
    /\ UNCHANGED treeVars
    /\ UNCHANGED textVars

\* lines 108-111: the root label
CheckRootLabel ==
    /\ pc = "root"
    /\ LET l == label(tree) IN
       IF ~l.some THEN result' = Panic /\ pc' = "done"
       ELSE IF l.s # "export" THEN result' = UnexpectedRootLabel(l.s) /\ pc' = "done"
       ELSE result' = result /\ pc' = "version"
    /\ UNCHANGED treeVars
    /\ UNCHANGED textVars

\* a version check that comes after the lookup of the components section
CheckVersion_AfterComponents ==
    /\ pc = "version"
    /\ \E sec \in {child(tree, "components")}, version \in {value(tree, "version")} :
          IF ~IsOk(sec) THEN result' = sec /\ pc' = "done"
          ELSE IF ~IsOk(version) THEN result' = version /\ pc' = "done"
          ELSE IF version.s # "E" THEN result' = UnknownVersion(version.s) /\ pc' = "done"
          ELSE result' = result /\ pc' = "components"
    /\ UNCHANGED treeVars
    /\ UNCHANGED textVars

\* lines 113-116: the version
CheckVersion ==
    /\ pc = "version"
    /\ LET version == value(tree, "version") IN
       IF ~IsOk(version) THEN result' = version /\ pc' = "done"
       ELSE IF version.s # "E" THEN result' = UnknownVersion(version.s) /\ pc' = "done"
       ELSE result' = result /\ pc' = "components"
    /\ UNCHANGED treeVars
    /\ UNCHANGED textVars

\* lines 118-122
ExtractComponents ==
    /\ pc = "components"
    /\ \E sec \in {Section(tree, "components", "comp")} :
       \E got \in {IF IsOk(sec)
                    THEN TryCollect([i \in 1..Len(sec.v) |-> Component_try_from(sec.v[i])])
                    ELSE sec} :
          IF IsOk(got)
          THEN components' = got.v /\ result' = result /\ pc' = "libparts"
          ELSE components' = components /\ result' = got /\ pc' = "done"
    /\ UNCHANGED <<raw, called, tree, iter, yielded, parts, nets>>
    /\ UNCHANGED textVars

\* lines 124-128
ExtractParts ==
    /\ pc = "libparts"
    /\ \E sec \in {Section(tree, "libparts", "libpart")} :
       \E got \in {IF IsOk(sec)
                    THEN TryCollect([i \in 1..Len(sec.v) |-> Part_try_from(sec.v[i])])
                    ELSE sec} :
          IF IsOk(got)
          THEN parts' = got.v /\ result' = result /\ pc' = "nets"
          ELSE parts' = parts /\ result' = got /\ pc' = "done"
    /\ UNCHANGED <<raw, called, tree, iter, yielded, components, nets>>
    /\ UNCHANGED textVars

\* lines 130-140
ExtractNets ==
    /\ pc = "nets"
    /\ \E sec \in {Section(tree, "nets", "net")} :
       \E got \in {IF IsOk(sec)
                    THEN TryCollect([i \in 1..Len(sec.v) |-> Net_try_from(sec.v[i])])
                    ELSE sec} :
          IF IsOk(got)
          THEN /\ nets' = got.v
               /\ result' = Ok([components |-> components, parts |-> parts,
                                nets |-> got.v])
          ELSE nets' = nets /\ result' = got
    /\ pc' = "done"
    /\ UNCHANGED <<raw, called, tree, iter, yielded, components, parts>>
    /\ UNCHANGED textVars

NextExtract ==
    \/ CheckRootLabel
    \/ CheckVersion
    \/ ExtractComponents
    \/ ExtractParts
    \/ ExtractNets

SpecExtract == InitExtract /\ [][NextExtract]_vars

\* the leading string atom of the first direct child of node labelled key
AtomOf(node, key) == Labelled(node, key)[1].children[1].s

\* the root is a node that declares a version
DeclaresVersion ==
    /\ tree.t = "SExpr"
    /\ Labelled(tree, "version") # <<>>
    /\ HasLeadingAtom(Labelled(tree, "version")[1])

\* the item children of the first section child of the root
ItemsOf(section, item) == Labelled(Labelled(tree, section)[1], item)

\* the root passes the label and version checks and has its three sections
WellHeaded ==
    /\ tree.t = "SExpr"
    /\ tree.label = "export"
    /\ DeclaresVersion
    /\ AtomOf(tree, "version") = "E"
    /\ \A section \in Sections : Labelled(tree, section) # <<>>

(***************************************************************************)
(* C2: a root whose label is not "export" fails with the unexpected-root-  *)
(* label error carrying that label, whatever is in the tree: the run goes  *)
(* from the label check straight to its end, so no lookup is made and no   *)
(* MissingChild or MissingValue is reported.                               *)
(***************************************************************************)
C2_WrongRootLabel ==
    (tree.t = "SExpr" /\ tree.label # "export") =>
        /\ pc \in {"root", "done"}
        /\ pc = "done" =>
              result = [kind |-> "UnexpectedRootLabel", s |-> tree.label]

\* a root "design" without version and without nets has been refused
C2_Witness ==
    /\ pc = "done"
    /\ tree.t = "SExpr"
    /\ tree.label = "design"
    /\ Labelled(tree, "version") = <<>>
    /\ Labelled(tree, "nets") = <<>>
    /\ result.kind = "UnexpectedRootLabel"

(***************************************************************************)
(* C3: a root "export" whose version value is not "E" fails with           *)
(* UnknownVersion carrying that value, before any section is looked up,    *)
(* and a NetList is only ever produced from version "E".                   *)
(***************************************************************************)
C3_UnknownVersion ==
    /\ (tree.t = "SExpr" /\ tree.label = "export" /\ DeclaresVersion
            /\ AtomOf(tree, "version") # "E") =>
          /\ pc \in {"root", "version", "done"}
          /\ pc = "done" =>
                result = [kind |-> "UnknownVersion", s |-> AtomOf(tree, "version")]
    /\ (pc = "done" /\ result.kind = "Ok") =>
          DeclaresVersion /\ AtomOf(tree, "version") = "E"

\* version "D" has been refused on a tree without components section
C3_Witness ==
    /\ pc = "done"
    /\ tree.t = "SExpr"
    /\ tree.label = "export"
    /\ DeclaresVersion
    /\ AtomOf(tree, "version") = "D"
    /\ Labelled(tree, "components") = <<>>
    /\ result = [kind |-> "UnknownVersion", s |-> "D"]

(***************************************************************************)
(* C4: an accepted netlist has one component per comp of the components    *)
(* section, one part per libpart of the libparts section and one net per   *)
(* net of the nets section, each in document order.                        *)
(***************************************************************************)
C4_OnePerRecordInOrder ==
    (pc = "done" /\ result.kind = "Ok") =>
        /\ Len(result.v.components) = Len(ItemsOf("components", "comp"))
        /\ \A i \in 1..Len(result.v.components) :
              result.v.components[i].ref_des
                  = AtomOf(ItemsOf("components", "comp")[i], "ref")
        /\ Len(result.v.parts) = Len(ItemsOf("libparts", "libpart"))
        /\ \A i \in 1..Len(result.v.parts) :
              result.v.parts[i].part = AtomOf(ItemsOf("libparts", "libpart")[i], "part")
        /\ Len(result.v.nets) = Len(ItemsOf("nets", "net"))
        /\ \A i \in 1..Len(result.v.nets) :
              result.v.nets[i].name = AtomOf(ItemsOf("nets", "net")[i], "name")

\* a netlist of two components, one part and two nets has been accepted
C4_Witness ==
    /\ pc = "done"
    /\ result.kind = "Ok"
    /\ Len(ItemsOf("components", "comp")) = 2
    /\ Len(ItemsOf("libparts", "libpart")) = 1
    /\ Len(ItemsOf("nets", "net")) = 2
    /\ Len(result.v.components) = 2
    /\ result.v.components[1].ref_des # result.v.components[2].ref_des

\* what is wrong with field key of node: nothing, no child labelled key, or a
\* first such child that does not start with a string atom
FieldError(node, key) ==
    IF Labelled(node, key) = <<>> THEN {MissingChild(key)}
    ELSE IF ~HasLeadingAtom(Labelled(node, key)[1]) THEN {MissingValue}
    ELSE {}

FieldErrors(node, keys) == UNION {FieldError(node, key) : key \in keys}

EachErrors(nodes, keys) == UNION {FieldErrors(nodes[i], keys) : i \in 1..Len(nodes)}

\* the required fields of a comp that are missing
CompErrors(comp) ==
    FieldErrors(comp, {"ref", "value"})
    \cup EachErrors(Labelled(comp, "property"), {"name", "value"})
    \cup (IF Labelled(comp, "libsource") = <<>> THEN {MissingChild("libsource")}
          ELSE FieldErrors(Labelled(comp, "libsource")[1], {"lib", "part"}))

\* the required fields of a libpart that are missing, description among them
\* or not
LibpartErrors(libpart, withDescription) ==
    FieldErrors(libpart, {"lib", "part"}
                         \cup (IF withDescription THEN {"description"} ELSE {}))
    \cup (IF Labelled(libpart, "pins") = <<>> THEN {}
          ELSE EachErrors(Labelled(Labelled(libpart, "pins")[1], "pin"),
                          {"num", "name", "type"}))

\* the required fields of a net that are missing
NetErrors(net) ==
    FieldErrors(net, {"code", "name"})
    \cup EachErrors(Labelled(net, "node"), {"ref", "pin", "pintype"})

\* the required fields missing anywhere in the three sections
RequiredErrors(withDescription) ==
    UNION {CompErrors(ItemsOf("components", "comp")[i]) :
              i \in 1..Len(ItemsOf("components", "comp"))}
    \cup UNION {LibpartErrors(ItemsOf("libparts", "libpart")[i], withDescription) :
                   i \in 1..Len(ItemsOf("libparts", "libpart"))}
    \cup UNION {NetErrors(ItemsOf("nets", "net")[i]) :
                   i \in 1..Len(ItemsOf("nets", "net"))}

\* the Option of the leading atom of field key of node
OptionOf(node, key) ==
    IF FieldError(node, key) = {} THEN [some |-> TRUE, s |-> AtomOf(node, key)]
    ELSE [some |-> FALSE]

\* the optional fields of an accepted netlist hold the source's value, or the
\* default when the source has none
Defaulted(netlist) ==
    /\ \A i \in 1..Len(netlist.components) :
          netlist.components[i].footprint
              = OptionOf(ItemsOf("components", "comp")[i], "footprint")
    /\ \A i \in 1..Len(netlist.parts) :
          /\ netlist.parts[i].description
                = IF FieldError(ItemsOf("libparts", "libpart")[i], "description") = {}
                  THEN AtomOf(ItemsOf("libparts", "libpart")[i], "description")
                  ELSE ""
          /\ Labelled(ItemsOf("libparts", "libpart")[i], "pins") = <<>> =>
                netlist.parts[i].pins = <<>>
    /\ \A i \in 1..Len(netlist.nets) :
          \A j \in 1..Len(netlist.nets[i].nodes) :
             netlist.nets[i].nodes[j].function
                 = OptionOf(Labelled(ItemsOf("nets", "net")[i], "node")[j], "pinfunction")

(***************************************************************************)
(* C5, as the claim states it: with description among the required fields  *)
(* of a part, a missing required field makes the extraction fail with      *)
(* MissingChild or MissingValue.                                           *)
(***************************************************************************)
C5_DescriptionRequired ==
    (pc = "done" /\ WellHeaded /\ RequiredErrors(TRUE) # {}) =>
        result.kind \in {"MissingChild", "MissingValue"}

(***************************************************************************)
(* C5, amended: a missing required field (component ref, value, libsource  *)
(* and its lib and part, property name and value; part lib and part; pin   *)
(* num, name and type; net code and name; node ref, pin and pintype) makes *)
(* the extraction fail with the query layer's error for one such field;    *)
(* when none is missing the netlist is accepted, with None for a           *)
(* footprint or pinfunction that is absent or has no value, "" for such a  *)
(* description, and no pins for a part without pins section.               *)
(***************************************************************************)
C5_RequiredFieldsOnly ==
    (pc = "done" /\ WellHeaded) =>
        /\ RequiredErrors(FALSE) # {} => result \in RequiredErrors(FALSE)
        /\ RequiredErrors(FALSE) = {} => result.kind = "Ok" /\ Defaulted(result.v)

\* a part without description has been accepted with the empty description
C5_Witness ==
    /\ pc = "done"
    /\ WellHeaded
    /\ result.kind = "Ok"
    /\ \E i \in 1..Len(result.v.parts) :
          /\ Labelled(ItemsOf("libparts", "libpart")[i], "description") = <<>>
          /\ result.v.parts[i].description = ""

(***************************************************************************)
(* The tokenizer on one quoted string: a quote, at most MaxEsc pieces, each *)
(* a plain character or one of the escapes the format knows, and a quote.   *)
(***************************************************************************)
MaxEsc == 2

EscPieces ==
    {<<"a">>, <<"u">>, <<" ">>, <<"(">>}
    \cup {<<"\\", c>> : c \in {"\"", "\\", "n", "f", "r", "t", "b"}}
    \cup {<<"\\", "u", "0", "0", "e", "9">>}

EscInputs == {<<"\"">> \o Concat(ps) \o <<"\"">> : ps \in SeqsUpTo(EscPieces, MaxEsc)}

InitEsc ==
    /\ input \in EscInputs
    /\ src = input
    /\ pos = 0
    /\ toks = <<>>
    /\ pc = "lexing"
    /\ stack = <<>>
    /\ result = NoResult
    /\ first = NoResult
    /\ run = 0
    /\ NoTree

SpecEsc == InitEsc /\ [][NextLex]_vars

(***************************************************************************)
(* C11: a quote, then plain characters and the escapes \", \\, \n, \f, \r, *)
(* \t, \b and \uXXXX, then a quote, is lexed as one single String token    *)
(* that spans the text between the two quotes.                             *)
(***************************************************************************)
C11_EscapedStringIsOneToken ==
    pc = "eof" => toks = <<[kind |-> "String", span |-> Span(1, Len(src) - 1)]>>

\* the parse has ended on a lex-error token, the last token it took
EndedOnError == pc = "done" /\ toks # <<>> /\ toks[Len(toks)].kind = "Error"

(***************************************************************************)
(* C12, as the claim states it: a parse that reaches a lex-error token     *)
(* fails with UnknownToken wherever the token stands, and UnexpectedToken  *)
(* never reports a lex-error token.                                        *)
(***************************************************************************)
C12_LexErrorIsUnknownToken ==
    /\ EndedOnError => result.kind = "UnknownToken"
    /\ (pc = "done" /\ result.kind = "UnexpectedToken") => result.found # "Error"

(***************************************************************************)
(* C12, amended: a lex-error token among the children of a node fails with *)
(* UnknownToken; a lex-error token where the root's '(' or a label is      *)
(* expected fails with UnexpectedToken, found Error, as any token of       *)
(* another kind than the expected one does.  UnknownToken is produced for  *)
(* lex-error tokens only.                                                  *)
(***************************************************************************)
C12_LexErrorByPosition ==
    /\ EndedOnError =>
          IF Len(toks) = 1
          THEN result = [kind |-> "UnexpectedToken", expected |-> "LParen",
                         found |-> "Error", at |-> toks[1].span]
          ELSE IF toks[Len(toks) - 1].kind = "LParen"
          THEN result = [kind |-> "UnexpectedToken", expected |-> "String",
                         found |-> "Error", at |-> toks[Len(toks)].span]
          ELSE result.kind = "UnknownToken" /\ result.found = "Error"
    /\ (pc = "done" /\ result.kind = "UnknownToken") => EndedOnError
    /\ (pc = "done" /\ result.kind = "UnexpectedToken") =>
          /\ toks # <<>>
          /\ result.found = toks[Len(toks)].kind
          /\ result.found # result.expected

\* a lex-error token stood where a label was expected
C12_Witness ==
    /\ EndedOnError
    /\ Len(toks) >= 2
    /\ toks[Len(toks) - 1].kind = "LParen"
    /\ result.kind = "UnexpectedToken"
    /\ result.found = "Error"

(***************************************************************************)
(* C13: every parser error carries the span of the offending input:        *)
(* UnexpectedToken and UnknownToken the span of the token the parse ended  *)
(* on, UnexpectedEof the empty span at the end of the text.                *)
(***************************************************************************)
C13_ErrorsCarryOffendingSpan ==
    pc = "done" =>
        /\ result.kind \in {"UnexpectedToken", "UnknownToken"} =>
              toks # <<>> /\ result.at = toks[Len(toks)].span
        /\ result.kind = "UnexpectedEof" => result.at = Span(Len(src), Len(src))

(***************************************************************************)
(* Semantic resolver: raw::NetList -> NetList                              *)
(*                                                                         *)
(* A resolved NetList is [components, parts, nets].  A Component carries   *)
(* its part_id [lib, part] and its pins, each bound to a net name; a Part  *)
(* carries the set of the ref_des of the components that use it.           *)
(***************************************************************************)
\* a MissingPart reported as the error of step 4
MissingPart_AsUnused(part_id) == [kind |-> "UnusedPart", part_id |-> part_id]

MissingPart(part_id) == [kind |-> "MissingPart", part_id |-> part_id]

\* a MissingNet with its two fields the wrong way round
MissingNet_Swapped(ref_des, num) ==
    [kind |-> "MissingNet", ref_des |-> num, num |-> ref_des]

MissingNet(ref_des, num) == [kind |-> "MissingNet", ref_des |-> ref_des, num |-> num]

UnusedPart(part_id) == [kind |-> "UnusedPart", part_id |-> part_id]

\* the least element of a set of indices, 0 when there is none
FirstOfSet(hits) == IF hits = {} THEN 0 ELSE CHOOSE i \in hits : \A j \in hits : i <= j

\* the index of the first component that carries ref_des, 0 when there is none
CompIndex(comps, ref_des) ==
    FirstOfSet({i \in 1..Len(comps) : comps[i].ref_des = ref_des})

\* the index of the first part with this part_id, 0 when there is none
PartIndex(ps, part_id) == FirstOfSet({i \in 1..Len(ps) : ps[i].part_id = part_id})

\* the index of the first net with a node (ref_des, num), 0 when there is none
NetIndex(ns, ref_des, num) ==
    FirstOfSet({i \in 1..Len(ns) :
                   \E j \in 1..Len(ns[i].nodes) :
                      ns[i].nodes[j].ref_des = ref_des /\ ns[i].nodes[j].num = num})

\* a pin or node with its type string mapped to the type tag t, or t's error
Typed(rec, t) == IF IsOk(t) THEN Ok([rec EXCEPT !.typ = t.v]) ELSE t

\* step 1: RawComponent -> Component, its pins not bound yet
Component_from_raw(c) ==
    [ref_des |-> c.ref_des, value |-> c.value,
     part_id |-> [lib |-> c.lib, part |-> c.part],
     properties |-> c.properties, footprint |-> c.footprint, pins |-> <<>>]

PartWithPins(p, pins) ==
    IF IsOk(pins)
    THEN Ok([part_id |-> [lib |-> p.lib, part |-> p.part],
             description |-> p.description, pins |-> pins.v, components |-> {}])
    ELSE pins

\* step 1: RawPart -> Part, its components not collected yet
Part_from_raw(p) ==
    PartWithPins(p, TryCollect([j \in 1..Len(p.pins) |->
                                   Typed(p.pins[j], PinType_try_from(p.pins[j].typ))]))

NetWithNodes(n, nodes) ==
    IF IsOk(nodes) THEN Ok([code |-> n.code, name |-> n.name, nodes |-> nodes.v])
    ELSE nodes

\* step 2: RawNet -> Net
Net_from_raw(n) ==
    NetWithNodes(n, TryCollect([j \in 1..Len(n.nodes) |->
                                   Typed(n.nodes[j], PinType_try_from(n.nodes[j].typ))]))

\* step 3, one pin: the first net with a node for (ref_des, pin number)
ComponentPin_for(ref_des, pin, k, ns) ==
    IF k = 0 THEN MissingNet(ref_des, pin.num)
    ELSE Ok([num |-> pin.num, name |-> pin.name, typ |-> pin.typ,
             net_name |-> ns[k].name])

ComponentWithPins(comp, pins) ==
    IF IsOk(pins) THEN Ok([comp EXCEPT !.pins = pins.v]) ELSE pins

BindPinsOf(comp, k, ps, ns) ==
    IF k = 0 THEN MissingPart(comp.part_id)
    ELSE ComponentWithPins(comp,
             TryCollect([j \in 1..Len(ps[k].pins) |->
                 ComponentPin_for(comp.ref_des, ps[k].pins[j],
                                  NetIndex(ns, comp.ref_des, ps[k].pins[j].num), ns)]))

\* step 3, one component: its part, then a net for each pin of the part
BindPins(comp, ps, ns) == BindPinsOf(comp, PartIndex(ps, comp.part_id), ps, ns)

\* the ref_des of every component whose part_id is part_id
UsersOf(part_id, comps) ==
    {comps[i].ref_des : i \in {i \in 1..Len(comps) : comps[i].part_id = part_id}}

\* step 4, one part
BackLink(part, comps) ==
    IF UsersOf(part.part_id, comps) = {} THEN UnusedPart(part.part_id)
    ELSE Ok([part EXCEPT !.components = UsersOf(part.part_id, comps)])

Assembled(comps, ps, ns) ==
    IF IsOk(ps) THEN Ok([components |-> comps, parts |-> ps.v, nets |-> ns]) ELSE ps

BackLinked(comps, ps, ns) ==
    IF IsOk(comps)
    THEN Assembled(comps.v,
                   TryCollect([i \in 1..Len(ps) |-> BackLink(ps[i], comps.v)]), ns)
    ELSE comps

Linked(comps, ps, ns) ==
    IF ~IsOk(ps) THEN ps
    ELSE IF ~IsOk(ns) THEN ns
    ELSE BackLinked(TryCollect([i \in 1..Len(comps) |-> BindPins(comps[i], ps.v, ns.v)]),
                    ps.v, ns.v)

\* resolve: steps 1 to 4, the first error ends it
resolve(r) ==
    Linked([i \in 1..Len(r.components) |-> Component_from_raw(r.components[i])],
           TryCollect([i \in 1..Len(r.parts) |-> Part_from_raw(r.parts[i])]),
           TryCollect([i \in 1..Len(r.nets) |-> Net_from_raw(r.nets[i])]))

(***************************************************************************)
(* Mutation engine: remove_component, remove_components                    *)
(***************************************************************************)
RemoveAt(seq, k) == SubSeq(seq, 1, k - 1) \o SubSeq(seq, k + 1, Len(seq))

\* step (b): the nodes of the ref_des in gone deleted from every net, then every
\* net left with zero nodes deleted
WithoutNodesOf(ns, gone) ==
    SelectSeq([i \in 1..Len(ns) |->
                  [ns[i] EXCEPT !.nodes =
                      SelectSeq(@, LAMBDA node : node.ref_des \notin gone)]],
              LAMBDA net : net.nodes # <<>>)

\* step (c): ref_des taken out of the component set of part k, and the part
\* deleted if the set becomes empty
WithoutUser(ps, k, ref_des) ==
    IF k = 0 THEN ps
    ELSE IF ps[k].components \ {ref_des} = {} THEN RemoveAt(ps, k)
    ELSE [ps EXCEPT ![k].components = @ \ {ref_des}]

\* steps (a) to (c) for the component at index k
RemovedAt(m, k, ref_des) ==
    [components |-> RemoveAt(m.components, k),
     parts      |-> WithoutUser(m.parts, PartIndex(m.parts, m.components[k].part_id),
                                ref_des),
     nets       |-> WithoutNodesOf(m.nets, {ref_des})]

\* a remove_component that goes through the nets whether or not the component
\* exists
remove_component_NoGuard(m, ref_des) ==
    IF CompIndex(m.components, ref_des) = 0
    THEN [m EXCEPT !.nets = WithoutNodesOf(m.nets, {ref_des})]
    ELSE RemovedAt(m, CompIndex(m.components, ref_des), ref_des)

\* NetList::remove_component
remove_component(m, ref_des) ==
    IF CompIndex(m.components, ref_des) = 0 THEN m
    ELSE RemovedAt(m, CompIndex(m.components, ref_des), ref_des)

\* the ref_des of refs that some component carries
Present(m, refs) == {r \in refs : CompIndex(m.components, r) # 0}

\* steps (a) to (c) for a whole set: a part is deleted when none of its
\* components is left
RemovedAll(m, gone) ==
    [components |-> SelectSeq(m.components, LAMBDA c : c.ref_des \notin gone),
     parts      |-> SelectSeq([i \in 1..Len(m.parts) |->
                                  [m.parts[i] EXCEPT !.components = @ \ gone]],
                              LAMBDA part : part.components # {}),
     nets       |-> WithoutNodesOf(m.nets, gone)]

\* NetList::remove_components
remove_components(m, refs) ==
    IF Present(m, refs) = {} THEN m ELSE RemovedAll(m, Present(m, refs))

(***************************************************************************)
(* The raw netlists of the resolver runs: at most MaxComps components      *)
(* R1/R2, a list of libparts P1 (pins 1, 2) and P2 (pin 1), and at most    *)
(* MaxNets nets over which the nodes R1.1, R1.2, R2.1 and R3.1 are spread; *)
(* no component is called R3.                                              *)
(***************************************************************************)
MaxComps == 2

MaxNets == 2

RawComp(ref_des, part) ==
    [ref_des |-> ref_des, value |-> "10k", part |-> part, lib |-> "Device",
     properties |-> <<>>, footprint |-> None]

RawPin(num, name, typ) == [num |-> num, name |-> name, typ |-> typ]

RawPart(part, typ) ==
    [part |-> part, lib |-> "Device", description |-> "",
     pins |-> IF part = "P1" THEN <<RawPin("1", "A", typ), RawPin("2", "B", Chars_passive)>>
              ELSE <<RawPin("1", "A", typ)>>]

RawNode(ref_des, num) ==
    [ref_des |-> ref_des, num |-> num, function |-> None, typ |-> Chars_passive]

CompChoices == {RawComp("R1", "P1"), RawComp("R1", "P2"), RawComp("R2", "P2")}

PartLists ==
    {<<>>, <<RawPart("P1", Chars_passive)>>, <<RawPart("P2", Chars_input)>>,
     <<RawPart("P1", Chars_passive), RawPart("P2", Chars_input)>>,
     <<RawPart("P2", Chars_input), RawPart("P2", Chars_input)>>,
     <<RawPart("P2", <<"x">>)>>}

NodeSlots == <<RawNode("R1", "2"), RawNode("R1", "1"), RawNode("R2", "1"),
               RawNode("R3", "1")>>

\* the spreadings of the nodes over n nets: node j goes to none (0) or to one
\* of the first j nets, and the node of R3 to none or to the first
Spreadings(n) ==
    {f \in [1..Len(NodeSlots) -> 0..n] :
        /\ \A j \in 1..Len(NodeSlots) : f[j] <= j
        /\ f[Len(NodeSlots)] <= 1}

\* net k of the spreading f: the nodes f puts there, in the order of NodeSlots
RawNet(k, f) ==
    [code |-> ToString(k), name |-> NetOf(k),
     nodes |-> SelectSeq(NodeSlots,
                         LAMBDA node : \E j \in 1..Len(NodeSlots) :
                                          NodeSlots[j] = node /\ f[j] = k)]

NetLists ==
    UNION {{[k \in 1..n |-> RawNet(k, f)] : f \in Spreadings(n)} : n \in 0..MaxNets}

RawNetLists ==
    {[components |-> cs, parts |-> ps, nets |-> ns] :
        cs \in SeqsUpTo(CompChoices, MaxComps), ps \in PartLists, ns \in NetLists}

RefDesArgs == {"R1", "R2", "R3"}

\* the sets handed to remove_components
RefDesSets == {{}, {"R1"}, {"R1", "R2"}, {"R2", "R3"}}

\* the resolved NetList as it is now
Model == [components |-> components, parts |-> parts, nets |-> nets]

InitResolve ==
    /\ NoText
    /\ tree = [t |-> "None"]
    /\ iter = [live |-> FALSE]
    /\ yielded = <<>>
    /\ components = <<>>
    /\ parts = <<>>
    /\ nets = <<>>
    /\ raw \in RawNetLists
    /\ called = NoCall
    /\ result = NoResult
    /\ pc = "resolve"

\* NetList::try_from(raw)
Resolve ==
    /\ pc = "resolve"
    /\ \E r \in {resolve(raw)} :
          /\ result' = r
          /\ IF IsOk(r)
             THEN /\ components' = r.v.components
                  /\ parts' = r.v.parts
                  /\ nets' = r.v.nets
                  /\ pc' = "model"
             ELSE /\ UNCHANGED <<components, parts, nets>>
                  /\ pc' = "failed"
    /\ UNCHANGED <<raw, called, tree, iter, yielded>>
    /\ UNCHANGED textVars

\* netlist.remove_component(ref_des)
RemoveComponent ==
    /\ pc = "model"
    /\ \E ref_des \in RefDesArgs :
          /\ called' = [op |-> "remove_component", arg |-> ref_des]
          /\ \E m \in {remove_component(Model, ref_des)} :
                /\ components' = m.components
                /\ parts' = m.parts
                /\ nets' = m.nets
    /\ UNCHANGED <<raw, tree, iter, yielded, result, pc>>
    /\ UNCHANGED textVars

\* netlist.remove_components(refs)
RemoveComponents ==
    /\ pc = "model"
    /\ \E refs \in RefDesSets :
          /\ called' = [op |-> "remove_components", arg |-> refs]
          /\ \E m \in {remove_components(Model, refs)} :
                /\ components' = m.components
                /\ parts' = m.parts
                /\ nets' = m.nets
    /\ UNCHANGED <<raw, tree, iter, yielded, result, pc>>
    /\ UNCHANGED textVars

NextResolve == Resolve \/ RemoveComponent \/ RemoveComponents

SpecResolve == InitResolve /\ [][NextResolve]_vars

\* the resolution has succeeded and nothing has been removed yet
JustParsed == pc = "model" /\ called = NoCall

\* every component's part_id resolves to a part of m
PartsResolve(m) ==
    \A i \in 1..Len(m.components) :
       \E j \in 1..Len(m.parts) : m.parts[j].part_id = m.components[i].part_id

\* every part's component set is non-empty and names components of m only
PartSetsLive(m) ==
    \A j \in 1..Len(m.parts) :
       /\ m.parts[j].components # {}
       /\ \A r \in m.parts[j].components :
             \E i \in 1..Len(m.components) : m.components[i].ref_des = r

NetsNonEmpty(m) == \A k \in 1..Len(m.nets) : m.nets[k].nodes # <<>>

\* every component pin has a node with its (ref_des, pin number) in some net
PinsHaveNodes(m) ==
    \A i \in 1..Len(m.components) :
       \A p \in 1..Len(m.components[i].pins) :
          \E k \in 1..Len(m.nets) :
             \E n \in 1..Len(m.nets[k].nodes) :
                /\ m.nets[k].nodes[n].ref_des = m.components[i].ref_des
                /\ m.nets[k].nodes[n].num = m.components[i].pins[p].num

(***************************************************************************)
(* C14: after any sequence of remove_component and remove_components calls *)
(* on a resolved netlist, every component's part_id resolves to a part,    *)
(* every part's component set is non-empty and names only components still *)
(* present, every net has a node, and every component pin has a node with  *)
(* its (ref_des, pin number) in some net.                                  *)
(***************************************************************************)
C14_InvariantsAfterRemovals ==
    (pc = "model" /\ called # NoCall) =>
        /\ PartsResolve(Model)
        /\ PartSetsLive(Model)
        /\ NetsNonEmpty(Model)
        /\ PinsHaveNodes(Model)

(***************************************************************************)
(* C18: after a successful parse every net of the model has a node.        *)
(***************************************************************************)
C18_NoEmptyNetAfterParse == JustParsed => NetsNonEmpty(Model)

\* no two parts of m share a part_id
UniqueParts(m) ==
    \A i, j \in 1..Len(m.parts) : m.parts[i].part_id = m.parts[j].part_id => i = j

\* no two component pins of m share (ref_des, pin number)
UniquePins(m) ==
    \A i, j \in 1..Len(m.components) :
       \A p \in 1..Len(m.components[i].pins) :
          \A q \in 1..Len(m.components[j].pins) :
             (/\ m.components[i].ref_des = m.components[j].ref_des
              /\ m.components[i].pins[p].num = m.components[j].pins[q].num)
                => (i = j /\ p = q)

(***************************************************************************)
(* C19: after a successful parse no two parts share a PartId, so that      *)
(* every component's part_id resolves to exactly one part, and no two      *)
(* component pins share (ref_des, pin number).                             *)
(***************************************************************************)
C19_UniqueKeysAfterParse ==
    JustParsed =>
        /\ UniqueParts(Model)
        /\ \A i \in 1..Len(components) :
              Cardinality({j \in 1..Len(parts) :
                              parts[j].part_id = components[i].part_id}) = 1
        /\ UniquePins(Model)

\* the orders in which the reference designators of refs can be taken one by
\* one
Orders(refs) ==
    {o \in [1..Cardinality(refs) -> refs] :
        \A i, j \in 1..Cardinality(refs) : o[i] = o[j] => i = j}

RECURSIVE OneByOne(_, _)
\* remove_component called once per element of order, first to last
OneByOne(m, order) ==
    IF order = <<>> THEN m
    ELSE OneByOne(remove_component(m, Head(order)), Tail(order))

(***************************************************************************)
(* C15: on every model, resolved or already reduced, and for every set S   *)
(* of reference designators, remove_components(S) gives the model that     *)
(* remove_component gives when called once per element of S, in any        *)
(* order.                                                                  *)
(***************************************************************************)
C15_BatchIsOneByOne ==
    pc = "model" =>
        \A refs \in SUBSET RefDesArgs :
           \A order \in Orders(refs) :
              remove_components(Model, refs) = OneByOne(Model, order)

\* after is m without the component ref_des: the component is gone and the
\* other components are as they were, in their order
ComponentGone(m, after, ref_des) ==
    /\ \A i \in 1..Len(after.components) : after.components[i].ref_des # ref_des
    /\ after.components = SelectSeq(m.components, LAMBDA c : c.ref_des # ref_des)

\* after has no node of ref_des and no empty net; the nets that had a node of
\* another ref_des are kept in their order with exactly those nodes
NodesGone(m, kept, after, ref_des) ==
    /\ \A k \in 1..Len(after.nets) :
          /\ after.nets[k].nodes # <<>>
          /\ \A n \in 1..Len(after.nets[k].nodes) :
                after.nets[k].nodes[n].ref_des # ref_des
    /\ Len(after.nets) = Len(kept)
    /\ \A k \in 1..Len(kept) :
          /\ after.nets[k].name = kept[k].name
          /\ after.nets[k].code = kept[k].code
          /\ after.nets[k].nodes =
                SelectSeq(kept[k].nodes, LAMBDA node : node.ref_des # ref_des)

\* ref_des is gone from the component set of the part part_id, which had the
\* set users; the part is deleted iff the set became empty, and the other parts
\* are as they were
UserGone(m, after, ref_des, part_id, users) ==
    /\ \A j \in 1..Len(after.parts) :
          after.parts[j].part_id = part_id =>
             after.parts[j].components = users \ {ref_des}
    /\ (\E j \in 1..Len(after.parts) : after.parts[j].part_id = part_id)
          <=> users \ {ref_des} # {}
    /\ SelectSeq(after.parts, LAMBDA part : part.part_id # part_id)
          = SelectSeq(m.parts, LAMBDA part : part.part_id # part_id)

\* the state that remove_component(ref_des) is to leave behind
PostState(m, after, ref_des) ==
    /\ ComponentGone(m, after, ref_des)
    /\ NodesGone(m,
                 SelectSeq(m.nets,
                           LAMBDA net : \E n \in 1..Len(net.nodes) :
                                           net.nodes[n].ref_des # ref_des),
                 after, ref_des)
    /\ \A i \in 1..Len(m.components) :
          \A j \in 1..Len(m.parts) :
             (/\ i = CompIndex(m.components, ref_des)
              /\ j = PartIndex(m.parts, m.components[i].part_id))
                => UserGone(m, after, ref_des, m.parts[j].part_id,
                            m.parts[j].components)

(***************************************************************************)
(* C17: remove_component(r) for a component r of the model leaves exactly  *)
(* this state: r is gone from components; every node of r is gone from     *)
(* every net and every net left without nodes is gone; r is gone from its  *)
(* part's component set and the part is deleted iff the set became empty;  *)
(* every other component, part and node is unchanged and in its order.     *)
(***************************************************************************)
C17_RemovePostState ==
    pc = "model" =>
        \A r \in RefDesArgs :
           CompIndex(components, r) # 0 =>
              PostState(Model, remove_component(Model, r), r)

\* some net of ns has a node of ref_des
HasNodeOf(ns, ref_des) ==
    \E k \in 1..Len(ns) :
       \E n \in 1..Len(ns[k].nodes) : ns[k].nodes[n].ref_des = ref_des

\* the step is a remove_component of a ref_des no component carries, or a
\* remove_components of the empty set
RemovesNothing ==
    /\ pc = "model"
    /\ \/ /\ called'.op = "remove_component"
          /\ CompIndex(components, called'.arg) = 0
       \/ /\ called'.op = "remove_components"
          /\ called'.arg = {}

(***************************************************************************)
(* C16: remove_component with a ref_des that no component carries, and     *)
(* remove_components with the empty set, do not fail and leave the         *)
(* components, the parts with their component sets and the nets with all   *)
(* their nodes as they were, also when a net has nodes of that ref_des.    *)
(***************************************************************************)
C16_RemovingNothingIsNoOp ==
    [][RemovesNothing =>
          /\ pc' = "model"
          /\ components' = components
          /\ parts' = parts
          /\ nets' = nets]_vars

\* remove_component was called for a ref_des whose only trace is a node in a
\* net, on the model as it was resolved
C16_Witness ==
    /\ pc = "model"
    /\ called.op = "remove_component"
    /\ CompIndex(result.v.components, called.arg) = 0
    /\ HasNodeOf(result.v.nets, called.arg)
    /\ Model = result.v
    /\ components # <<>>

\* the index of the first libpart of r that the component c names, 0 when
\* there is none
RawPartOf(r, c) ==
    FirstOfSet({k \in 1..Len(r.parts) :
                   r.parts[k].lib = c.lib /\ r.parts[k].part = c.part})

\* the names of the nets of r that have a node (ref_des, num)
NetsOfPin(r, ref_des, num) ==
    {r.nets[k].name : k \in {k \in 1..Len(r.nets) :
        \E n \in 1..Len(r.nets[k].nodes) :
           r.nets[k].nodes[n].ref_des = ref_des /\ r.nets[k].nodes[n].num = num}}

\* the pins of libpart k for which no net of r has a node of component i
UnboundPins(r, i, k) ==
    {j \in 1..Len(r.parts[k].pins) :
        NetsOfPin(r, r.components[i].ref_des, r.parts[k].pins[j].num) = {}}

\* the (component, pin) places of r where the component's libpart has a pin for
\* which no net has a node
Unbound(r) ==
    UNION {{<<i, j>> : j \in UnboundPins(r, i, RawPartOf(r, r.components[i]))} :
              i \in {i \in 1..Len(r.components) : RawPartOf(r, r.components[i]) # 0}}

\* the pin of the libpart of the component at an unbound place
PinAt(r, ip) == r.parts[RawPartOf(r, r.components[ip[1]])].pins[ip[2]]

\* the model m has, for every component of r, one pin per pin of its libpart,
\* in the libpart's order, bound to the name of a net with its node
PinsInPartOrder(r, m) ==
    /\ Len(m.components) = Len(r.components)
    /\ \A i \in 1..Len(r.components) :
          \A k \in 1..Len(r.parts) :
             k = RawPartOf(r, r.components[i]) =>
                /\ Len(m.components[i].pins) = Len(r.parts[k].pins)
                /\ \A j \in 1..Len(r.parts[k].pins) :
                      /\ m.components[i].pins[j].num = r.parts[k].pins[j].num
                      /\ m.components[i].pins[j].name = r.parts[k].pins[j].name
                      /\ m.components[i].pins[j].net_name
                            \in NetsOfPin(r, r.components[i].ref_des,
                                          r.parts[k].pins[j].num)

\* the place ip comes first: every component before it has a libpart, and no
\* place before it in (component, pin) order is unbound
FirstUnbound(r, ip) ==
    /\ ip \in Unbound(r)
    /\ \A i \in 1..ip[1] : RawPartOf(r, r.components[i]) # 0
    /\ \A other \in Unbound(r) :
          other[1] > ip[1] \/ (other[1] = ip[1] /\ other[2] >= ip[2])

\* some pin of a libpart or some node of a net of r has a type string that is
\* not a pin type
HasUnknownType(r) ==
    \/ \E k \in 1..Len(r.parts) :
          \E j \in 1..Len(r.parts[k].pins) :
             ~IsOk(PinType_try_from(r.parts[k].pins[j].typ))
    \/ \E k \in 1..Len(r.nets) :
          \E n \in 1..Len(r.nets[k].nodes) :
             ~IsOk(PinType_try_from(r.nets[k].nodes[n].typ))

\* err is the MissingNet error for the pin num of the component ref_des
NamesPin(err, ref_des, num) ==
    err.kind = "MissingNet" /\ err.ref_des = ref_des /\ err.num = num

Resolved == pc \in {"model", "failed"}

(***************************************************************************)
(* C20: a successful resolution gives every component one pin per pin of   *)
(* its part, in the part's pin order, each bound to the name of a net with *)
(* a node for that ref_des and pin number; when some pin of some           *)
(* component's part has no such node, the resolution fails with MissingNet *)
(* naming such a ref_des and pin number.                                   *)
(***************************************************************************)
C20_MissingNetWheneverUnbound ==
    Resolved =>
        /\ IsOk(result) => PinsInPartOrder(raw, result.v)
        /\ Unbound(raw) # {} =>
              /\ result.kind = "MissingNet"
              /\ \E ip \in Unbound(raw) :
                    NamesPin(result, raw.components[ip[1]].ref_des,
                                     PinAt(raw, ip).num)

(***************************************************************************)
(* C20, amended: a successful resolution gives every component one pin per *)
(* pin of its part, in the part's pin order, each bound to the name of a   *)
(* net with a node for that ref_des and pin number; when some pin of some  *)
(* component's part has no such node, the resolution fails; the error is   *)
(* MissingNet, naming the first such place in component order and then     *)
(* part pin order, unless an unknown pin type of a part pin or a net node, *)
(* or the missing part of an earlier component, is reported before it.     *)
(***************************************************************************)
C20_MissingNetInErrorOrder ==
    Resolved =>
        /\ IsOk(result) => PinsInPartOrder(raw, result.v)
        /\ Unbound(raw) # {} =>
              result.kind \in {"UnknownPinType", "MissingPart", "MissingNet"}
        /\ result.kind = "MissingNet" =>
              \E ip \in Unbound(raw) :
                 /\ FirstUnbound(raw, ip)
                 /\ NamesPin(result, raw.components[ip[1]].ref_des,
                                     PinAt(raw, ip).num)
        /\ \A ip \in Unbound(raw) :
              (FirstUnbound(raw, ip) /\ ~HasUnknownType(raw)) =>
                 NamesPin(result, raw.components[ip[1]].ref_des,
                                  PinAt(raw, ip).num)

\* the resolution failed on the second pin of the second component's part
C20_Witness ==
    /\ pc = "failed"
    /\ Len(raw.components) = 2
    /\ result.kind = "MissingNet"
    /\ result.ref_des = raw.components[2].ref_des
    /\ result.num = "2"

\* the components of r whose lib/part pair matches no libpart
Partless(r) == {i \in 1..Len(r.components) : RawPartOf(r, r.components[i]) = 0}

\* the libparts of r that no component names
Unused(r) ==
    {k \in 1..Len(r.parts) :
        \A i \in 1..Len(r.components) :
           ~(r.components[i].lib = r.parts[k].lib /\ r.components[i].part = r.parts[k].part)}

\* the components of r that step 3 fails on: no libpart, or a pin without a net
Unlinked(r) == Partless(r) \cup {ip[1] : ip \in Unbound(r)}

\* err is the error of kind for the lib/part pair of rec
NamesPart(err, kind, rec) ==
    err.kind = kind /\ err.part_id = [lib |-> rec.lib, part |-> rec.part]

\* the failed resolution has left no model behind
NoModel ==
    /\ pc = "failed"
    /\ ~IsOk(result)
    /\ components = <<>> /\ parts = <<>> /\ nets = <<>>

(***************************************************************************)
(* C21: the resolution fails whenever a component's part_id matches no     *)
(* part, with MissingPart naming such a lib/part pair, or with the         *)
(* MissingNet of step 3; it fails whenever a part has no component, with   *)
(* UnusedPart or, when a component is defective too, with the error of     *)
(* step 3; and a failed resolution returns no model.                       *)
(***************************************************************************)
C21_StrictPartLinkage ==
    Resolved =>
        /\ Partless(raw) # {} =>
              /\ NoModel
              /\ result.kind \in {"MissingPart", "MissingNet"}
              /\ result.kind = "MissingPart" =>
                    \E i \in Partless(raw) :
                       NamesPart(result, "MissingPart", raw.components[i])
        /\ Unused(raw) # {} =>
              /\ NoModel
              /\ result.kind \in {"UnusedPart", "MissingPart", "MissingNet"}
              /\ Unlinked(raw) # {} => result.kind # "UnusedPart"
        /\ ~IsOk(result) => NoModel

(***************************************************************************)
(* C21, amended: the resolution fails and returns no model whenever a      *)
(* component's part_id matches no part or a part has no component.  The    *)
(* error is the first in the resolver's order: an unknown pin type of a    *)
(* part pin or a net node if there is one; else, for the first component   *)
(* that has no part or a pin without a net, MissingPart naming its         *)
(* lib/part pair or MissingNet; else UnusedPart naming the first part      *)
(* without a component.                                                    *)
(***************************************************************************)
C21_PartLinkageInErrorOrder ==
    Resolved =>
        /\ (Partless(raw) # {} \/ Unused(raw) # {}) => NoModel
        /\ ~IsOk(result) => NoModel
        /\ HasUnknownType(raw) => result.kind = "UnknownPinType"
        /\ result.kind = "MissingPart" =>
              \E i \in Partless(raw) :
                 /\ \A j \in Unlinked(raw) : i <= j
                 /\ NamesPart(result, "MissingPart", raw.components[i])
        /\ result.kind = "UnusedPart" =>
              /\ Unlinked(raw) = {}
              /\ \E k \in Unused(raw) :
                    /\ \A j \in Unused(raw) : k <= j
                    /\ NamesPart(result, "UnusedPart", raw.parts[k])
        /\ ~HasUnknownType(raw) =>
              /\ \A i \in Partless(raw) :
                    (\A j \in Unlinked(raw) : i <= j)
                       => NamesPart(result, "MissingPart", raw.components[i])
              /\ (Unlinked(raw) = {} /\ Unused(raw) # {}) => result.kind = "UnusedPart"

\* two components without a part and a part without a component: MissingPart
\* is the error
C21_Witness ==
    /\ NoModel
    /\ result.kind = "MissingPart"
    /\ Unused(raw) # {}
    /\ Partless(raw) = {1, 2}

\* the number of '(' tokens consumed
LParensConsumed == Cardinality({i \in 1..Len(toks) : toks[i].kind = "LParen"})

\* the parse_sexpr calls in progress that have passed their expect(LParen): the
\* frames of the calls in their loop, and the call that waits for its label
Depth == Len(stack) + (IF pc = "expect_label" THEN 1 ELSE 0)

\* the tokens consumed lie one behind the other in the text
NoTokenTwice ==
    \A i, j \in 1..Len(toks) :
       i < j => /\ toks[i].span.start < toks[j].span.start
                /\ toks[i].span.end <= toks[j].span.start

\* the parser is at one of its places, in the loop of some call when in a loop
NotStuck ==
    /\ pc \in {"expect_lparen", "expect_label", "loop", "done"}
    /\ pc = "loop" => stack # <<>>

\* the parser is not stuck, and what it has read and stacked is bounded by the
\* text; while it runs there is no result
Bounded ==
    /\ NotStuck
    /\ pc # "done" => result = NoResult
    /\ pos <= Len(src)
    /\ NoTokenTwice
    /\ Depth <= LParensConsumed

\* a step of one run of the parser
ParserStep == pc # "done" /\ run' = run

\* the step consumes one token, further on in the text
ConsumesOne == Len(toks') = Len(toks) + 1 /\ pos' > pos

\* the step ends the run with an error
EndsInError == pc' = "done" /\ result'.kind \notin {"None", "Ok"}

\* once there is a result no token is consumed in that run and the result stays
NoRecovery ==
    /\ (pc = "done" /\ run' = run) => UNCHANGED <<toks, pos, result, pc>>
    /\ (ParserStep /\ result' # NoResult) => pc' = "done"

(***************************************************************************)
(* C22: parsing terminates and does not recover: every iteration of the    *)
(* loop and every nested call of parse_sexpr consumes a token, no token is *)
(* consumed twice, the calls in progress are never more than the '('       *)
(* tokens consumed, and after the first error no token is consumed and     *)
(* that error is the result.                                               *)
(***************************************************************************)
C22_EveryIterationConsumes ==
    /\ Bounded
    /\ [][/\ Bounded'
          /\ NoRecovery
          /\ (ParserStep /\ pc = "loop") => ConsumesOne]_vars

(***************************************************************************)
(* C22, amended: parsing terminates and does not recover: every iteration  *)
(* of the loop and every call of parse_sexpr consumes a token, except that *)
(* the one that finds the token stream at its end consumes none and ends   *)
(* the parse with UnexpectedEof; no token is consumed twice, the calls in  *)
(* progress are never more than the '(' tokens consumed, and after the     *)
(* first error no token is consumed and that error is the result.          *)
(***************************************************************************)
C22_ConsumesOrEndsAtEof ==
    /\ Bounded
    /\ [][/\ Bounded'
          /\ NoRecovery
          /\ ParserStep =>
                \/ ConsumesOne
                \/ /\ \A t \in TokenIterNext(src, pos) : t.kind = "None"
                   /\ toks' = toks
                   /\ EndsInError
                   /\ result' = UnexpectedEof(src)]_vars

\* the loop of a nested call has found the text at its end
C22_Witness ==
    /\ pc = "done"
    /\ result = UnexpectedEof(src)
    /\ Len(stack) = 2
    /\ toks[Len(toks)].kind = "String"
    /\ stack[2].children # <<>>

(***************************************************************************)
(* Trailing text: SExpr::try_from on a text, and then on the part of it    *)
(* that the first parse has read                                           *)
(***************************************************************************)

\* SExpr::try_from once more, on the root S-expression alone: the text up to
\* the ')' at which the first parse stopped
ParseRootAlone ==
    /\ pc = "done"
    /\ run = 1
    /\ result.kind = "Ok"
    /\ first' = result
    /\ run' = 2
    /\ src' = SubSeq(input, 1, pos)
    /\ pos' = 0
    /\ toks' = <<>>
    /\ stack' = <<>>
    /\ result' = NoResult
    /\ pc' = "expect_lparen"
    /\ UNCHANGED input
    /\ UNCHANGED treeVars

NextTrail ==
    \/ ExpectLParen
    \/ ExpectLabel
    \/ LoopRParen
    \/ LoopLParen
    \/ LoopString
    \/ LoopError
    \/ LoopEof
    \/ ParseRootAlone

SpecTrail == InitParse /\ [][NextTrail]_vars

\* the number of ')' tokens consumed
RParensConsumed == Cardinality({i \in 1..Len(toks) : toks[i].kind = "RParen"})

\* the tokens consumed are a complete root S-expression: a '(' first, a string
\* after every '(', no lex-error token, and as many ')' as '('
RootComplete ==
    /\ toks # <<>>
    /\ toks[1].kind = "LParen"
    /\ \A i \in 1..Len(toks) :
          /\ toks[i].kind # "Error"
          /\ toks[i].kind = "LParen" =>
                (i < Len(toks) /\ toks[i + 1].kind = "String")
    /\ LParensConsumed = RParensConsumed

(***************************************************************************)
(* C23: SExpr::try_from stops at the ')' that closes the root: once the    *)
(* tokens consumed are a complete root S-expression the parse is           *)
(* successful and has read no further, whatever text follows, and the root *)
(* alone parses to the same tree.                                          *)
(***************************************************************************)
C23_StopsAtRootClose ==
    /\ (pc = "done" /\ RootComplete) =>
          /\ result.kind = "Ok"
          /\ toks[Len(toks)].kind = "RParen"
          /\ pos = toks[Len(toks)].span.end
    /\ (pc = "done" /\ result.kind = "Ok") => RootComplete
    /\ (pc = "done" /\ run = 2) =>
          /\ pos = Len(src)
          /\ result.kind = "Ok"
          /\ result.tree = first.tree

\* the root alone has been parsed again after a text in which a lex-error token
\* follows the root
C23_Witness ==
    /\ pc = "done" /\ run = 2
    /\ Len(src) < Len(input)
    /\ input[Len(input)] = "\""
    /\ result.kind = "Ok"
    /\ result.tree.children # <<>>

====
